---- MODULE Spec2Model ----
(***************************************************************************)
(* Unicode character property, bracket/mirror and decomposition lookups of *)
(* sugarloaf's font_introspector (text/unicode.rs), the event loop of wa   *)
(* (event_loop.rs) and the Router of the cross-wa frontend.                *)
(*                                                                         *)
(* The lookups are pure functions over static tables.  The tables          *)
(* themselves (BRACKETS, MIRRORS, the decomposition data) are generated    *)
(* data; the model ranges over every bounded table of the shape the        *)
(* generator produces, so that a lookup is checked as an algorithm and     *)
(* not against one data set.                                               *)
(***************************************************************************)
EXTENDS Integers, Sequences, FiniteSets, TLC

VARIABLES
    BRACKETS,      \* static table of (open, close) pairs, sorted by open
    MIRRORS,       \* static table of (char, mirror) pairs, sorted by char
    bsearch_impl,  \* which slice::binary_search_by the build links
    op,            \* name of the last lookup that returned
    arg,           \* its argument
    res,           \* its result
    DECOMP,        \* static decomposition data: char -> mapping
    dsrc,          \* source character of the Decompose sequence in hand
    dmode,         \* "canonical" (decompose) or "compatible"
    stack,         \* code points still to expand, each with its depth
    out,           \* code points the sequence has yielded so far
    steps,         \* expansion steps taken for this sequence
    pc,            \* "idle", "expanding" or "done"
    RECORD_INDEX,  \* static property table: code point -> index into RECORDS
    RECORDS_len,   \* RECORDS.len()
    range_check,   \* what get_record_index does past the last code point
    props,         \* the Properties value (a u16) the caller holds
    aborted,       \* the process has panicked
    SCRIPTS_BY_TAG, \* static table of (OpenType tag, Script) pairs, sorted by tag
    EVENT_LOOP_CREATED, \* the static AtomicBool
    build_pc,      \* per building thread: "idle", or "channel" after a swap that read false
    built,         \* how many build calls have returned Ok
    event_loop,    \* the EventLoop build returned: "none", "alive" or "dropped"
    receiver_clones, \* clones of EventLoop::receiver (an Rc) held beside the EventLoop's
    receiver,      \* the channel's receiver: "none", "alive" or "dropped"
    chan,          \* events in the channel, oldest first
    proxy,         \* per proxy: "none", "live" or "dropped"
    send_pc,       \* per calling thread: where it is inside send_event, or "idle"
    via,           \* per calling thread: the proxy its send_event is called on
    cur,           \* per calling thread: the event of its send_event
    signalled,     \* per proxy: its run-loop source has been signalled
    wake,          \* the main run loop has been woken
    next_event,    \* number of send_event calls made so far
    returned_ok,   \* the events whose send_event has returned Ok(())
    main_pc,       \* the main run loop: "waiting" or "awake"
    received,      \* events the main thread has taken from the receiver, in order
    th,            \* per thread: the locals of its current lookup call
    routes,        \* Router.routes: window id -> Route
    current,       \* Router.current
    config,        \* Router.config
    clipboard,     \* the system clipboard (window::clipboard_get / clipboard_set)
    performed,     \* the calls the last handler made, in order
    handled        \* EventHandler calls made so far

vars == <<BRACKETS, MIRRORS, bsearch_impl, op, arg, res,
          DECOMP, dsrc, dmode, stack, out, steps, pc,
          RECORD_INDEX, RECORDS_len, range_check, props, aborted,
          SCRIPTS_BY_TAG,
          EVENT_LOOP_CREATED, build_pc, built,
          event_loop, receiver_clones, receiver, chan,
          proxy, send_pc, via, cur, signalled, wake, next_event,
          returned_ok, main_pc, received,
          th,
          routes, current, config, clipboard, performed, handled>>

\* the state of each part of the program, for the parts that leave it alone
PropsVars == <<RECORD_INDEX, RECORDS_len, range_check, props, aborted>>
ScriptVars == <<SCRIPTS_BY_TAG>>
LoopVars == <<EVENT_LOOP_CREATED, build_pc, built,
              event_loop, receiver_clones, receiver, chan,
              proxy, send_pc, via, cur, signalled, wake, next_event,
              returned_ok, main_pc, received>>
ThreadVars == <<th>>
RouterVars == <<routes, current, config, clipboard, performed, handled>>
Elsewhere == <<PropsVars, ScriptVars, LoopVars, ThreadVars, RouterVars>>

InitNoProps ==
    /\ RECORD_INDEX = <<>> /\ RECORDS_len = 1 /\ range_check = "default"
    /\ props = 0 /\ aborted = FALSE

InitNoScript == SCRIPTS_BY_TAG = <<>>

InitNoLoop ==
    /\ EVENT_LOOP_CREATED = FALSE /\ build_pc = <<>> /\ built = 0
    /\ event_loop = "none" /\ receiver_clones = 0
    /\ receiver = "none" /\ chan = <<>>
    /\ proxy = <<>> /\ send_pc = <<>> /\ via = <<>> /\ cur = <<>>
    /\ signalled = <<>> /\ wake = FALSE /\ next_event = 0
    /\ returned_ok = {} /\ main_pc = "waiting" /\ received = <<>>

InitNoThreads == th = <<>>

InitNoRouter ==
    /\ routes = <<>> /\ current = 1 /\ config = "initial"
    /\ clipboard = 0 /\ performed = <<>> /\ handled = 0

InitElsewhere ==
    InitNoProps /\ InitNoScript /\ InitNoLoop /\ InitNoThreads /\ InitNoRouter

(***************************************************************************)
(* Bounds                                                                  *)
(***************************************************************************)
MaxCh == 3       \* characters of the table alphabet are 0..MaxCh
MaxPairs == 3    \* longest bracket / mirror table
MaxCp == 2       \* tabulated code points of the decomposition data are 0..MaxCp
MaxMapped == 2   \* how many of them have a decomposition mapping

Chars == 0..MaxCh

(***************************************************************************)
(* Option<char> and BracketType values                                     *)
(***************************************************************************)
NoChar == -1

\* the argument of a call: a character or a bidi class
NoArg == [t |-> "none", v |-> NoChar]
CharArg(ch) == [t |-> "char", v |-> ch]
ClassArg(c) == [t |-> "class", v |-> c]
None == [tag |-> "None", val |-> NoChar]
Some(x) == [tag |-> "Some", val |-> x]

BracketNone == [tag |-> "None", val |-> NoChar]
BracketOpen(x) == [tag |-> "Open", val |-> x]
BracketClose(x) == [tag |-> "Close", val |-> x]

(***************************************************************************)
(* slice::binary_search_by.  The result on a slice that is not sorted by   *)
(* the comparator is unspecified by the standard library; the two loops    *)
(* the library has shipped are both modelled and the build picks one.      *)
(* Indices are 0-based as in the code; col[i + 1] reads element i.         *)
(***************************************************************************)
Cmp(a, b) == IF a < b THEN "Less" ELSE IF a > b THEN "Greater" ELSE "Equal"

Ok(i) == [ok |-> TRUE, idx |-> i]
Err(i) == [ok |-> FALSE, idx |-> i]

RECURSIVE ProbeLoop(_, _, _, _, _)
ProbeLoop(col, c, left, right, size) ==
    IF left < right
    THEN LET mid == left + (size \div 2)
             cmp == Cmp(col[mid + 1], c)
         IN  IF cmp = "Less" THEN ProbeLoop(col, c, mid + 1, right, right - (mid + 1))
             ELSE IF cmp = "Greater" THEN ProbeLoop(col, c, left, mid, mid - left)
             ELSE Ok(mid)
    ELSE Err(left)

RECURSIVE BranchlessLoop(_, _, _, _)
BranchlessLoop(col, c, base, size) ==
    IF size > 1
    THEN LET half == size \div 2
             mid == base + half
             cmp == Cmp(col[mid + 1], c)
         IN  BranchlessLoop(col, c, IF cmp = "Greater" THEN base ELSE mid, size - half)
    ELSE LET cmp == Cmp(col[base + 1], c)
         IN  IF cmp = "Equal" THEN Ok(base)
             ELSE Err(base + (IF cmp = "Less" THEN 1 ELSE 0))

BSearchImpls == {"probe", "branchless"}

binary_search_by(impl, col, c) ==
    IF impl = "probe"
    THEN ProbeLoop(col, c, 0, Len(col), Len(col))
    ELSE IF Len(col) = 0 THEN Err(0) ELSE BranchlessLoop(col, c, 0, Len(col))

Column(table, k) == [i \in 1..Len(table) |-> table[i][k]]

(***************************************************************************)
(* impl Codepoint for char: bracket and mirror lookups                     *)
(***************************************************************************)
opening_bracket(ch) ==
    LET r == binary_search_by(bsearch_impl, Column(BRACKETS, 2), ch)
    IN  IF r.ok THEN Some(BRACKETS[r.idx + 1][1]) ELSE None

closing_bracket_wrong_column(ch) ==
    LET r == binary_search_by(bsearch_impl, Column(BRACKETS, 1), ch)
    IN  IF r.ok THEN Some(BRACKETS[r.idx + 1][1]) ELSE None

closing_bracket(ch) ==
    LET r == binary_search_by(bsearch_impl, Column(BRACKETS, 1), ch)
    IN  IF r.ok THEN Some(BRACKETS[r.idx + 1][2]) ELSE None

bracket_type_closer_first(ch) ==
    LET o == opening_bracket(ch)
        c == closing_bracket(ch)
    IN  IF o.tag = "Some" THEN BracketClose(o.val)
        ELSE IF c.tag = "Some" THEN BracketOpen(c.val)
        ELSE BracketNone

bracket_type(ch) ==
    LET c == closing_bracket(ch)
    IN  IF c.tag = "Some" THEN BracketOpen(c.val)
        ELSE LET o == opening_bracket(ch)
             IN  IF o.tag = "Some" THEN BracketClose(o.val) ELSE BracketNone

mirror_off_by_one(ch) ==
    LET r == binary_search_by(bsearch_impl, Column(MIRRORS, 1), ch)
    IN  IF r.ok /\ r.idx > 0 THEN Some(MIRRORS[r.idx][2]) ELSE None

mirror(ch) ==
    LET r == binary_search_by(bsearch_impl, Column(MIRRORS, 1), ch)
    IN  IF r.ok THEN Some(MIRRORS[r.idx + 1][2]) ELSE None

(***************************************************************************)
(* BidiClass.  The enumeration is declared with the generated data; its    *)
(* variants are the 23 Bidi_Class values of the UCD and the discriminant   *)
(* of a variant is its position in the declaration.                        *)
(***************************************************************************)
BidiClassDecl ==
    <<"B", "S", "WS", "ON", "ET", "ES", "CS", "EN", "L", "BN", "R", "AN",
      "AL", "LRE", "RLE", "LRO", "RLO", "PDF", "LRI", "RLI", "FSI", "PDI",
      "NSM">>

BidiClass == {BidiClassDecl[i] : i \in 1..Len(BidiClassDecl)}

\* `self as u32`
Discriminant(c) == (CHOOSE i \in 1..Len(BidiClassDecl) : BidiClassDecl[i] = c) - 1

\* u32 bit operations on values below 2^31
RECURSIVE BitAnd(_, _)
BitAnd(a, b) ==
    IF a = 0 \/ b = 0 THEN 0
    ELSE (a % 2) * (b % 2) + 2 * BitAnd(a \div 2, b \div 2)

RECURSIVE BitOr(_, _)
BitOr(a, b) ==
    IF a = 0 THEN b
    ELSE IF b = 0 THEN a
    ELSE (IF a % 2 = 1 \/ b % 2 = 1 THEN 1 ELSE 0) + 2 * BitOr(a \div 2, b \div 2)

\* 1 << (self as u32); a u32 shift takes its amount modulo the width
mask_narrow(c) == 2 ^ (Discriminant(c) % 16)

mask(c) == 2 ^ (Discriminant(c) % 32)

OVERRIDE_MASK == BitOr(BitOr(mask("RLE"), mask("LRE")), BitOr(mask("RLO"), mask("LRO")))
ISOLATE_MASK == BitOr(BitOr(mask("RLI"), mask("LRI")), mask("FSI"))
EXPLICIT_MASK == BitOr(OVERRIDE_MASK, ISOLATE_MASK)
BIDI_MASK == BitOr(BitOr(EXPLICIT_MASK, mask("R")), BitOr(mask("AL"), mask("AN")))

needs_resolution_explicit_only(c) == BitAnd(mask(c), EXPLICIT_MASK) # 0

needs_resolution(c) == BitAnd(mask(c), BIDI_MASK) # 0

(***************************************************************************)
(* Tables.  The generator emits BRACKETS from BidiBrackets.txt and MIRRORS *)
(* from BidiMirroring.txt: both strictly ascending in the first column.    *)
(* A bracket pairing is one-to-one, so no closer appears twice; nothing    *)
(* orders the close column.                                                *)
(***************************************************************************)
SortedByFirst(t) == \A i \in 1..(Len(t) - 1) : t[i][1] < t[i + 1][1]
InjectiveSecond(t) == \A i, j \in 1..Len(t) : t[i][2] = t[j][2] => i = j

PairTables(n) == [1..n -> Chars \X Chars]
IsBracketTable(t) == SortedByFirst(t) /\ InjectiveSecond(t)
IsMirrorTable(t) == SortedByFirst(t)

\* The rows (298D, 2990) (298F, 298E) of BidiBrackets.txt and a pair of
\* BidiMirroring.txt, renumbered into Chars keeping their order.
SampleBrackets == <<<<0, 3>>, <<2, 1>>>>
SampleMirrors == <<<<0, 1>>, <<1, 0>>>>

(***************************************************************************)
(* One action per lookup; each records the call and what it returned.      *)
(***************************************************************************)
Tables == <<BRACKETS, MIRRORS, bsearch_impl>>
DecompState == <<DECOMP, dsrc, dmode, stack, out, steps, pc>>

\* the character or class in hand is drawn once (InitInput); every lookup
\* that takes it may then be applied to it, in any order and repeatedly
BracketType ==
    /\ arg.t = "char"
    /\ op' = "bracket_type" /\ res' = bracket_type(arg.v)
    /\ UNCHANGED <<arg, Tables, DecompState, Elsewhere>>

OpeningBracket ==
    /\ arg.t = "char"
    /\ op' = "opening_bracket" /\ res' = opening_bracket(arg.v)
    /\ UNCHANGED <<arg, Tables, DecompState, Elsewhere>>

ClosingBracket ==
    /\ arg.t = "char"
    /\ op' = "closing_bracket" /\ res' = closing_bracket(arg.v)
    /\ UNCHANGED <<arg, Tables, DecompState, Elsewhere>>

Mirror ==
    /\ arg.t = "char"
    /\ op' = "mirror" /\ res' = mirror(arg.v)
    /\ UNCHANGED <<arg, Tables, DecompState, Elsewhere>>

Mask ==
    /\ arg.t = "class"
    /\ op' = "mask" /\ res' = mask(arg.v)
    /\ UNCHANGED <<arg, Tables, DecompState, Elsewhere>>

NeedsResolution ==
    /\ arg.t = "class"
    /\ op' = "needs_resolution" /\ res' = needs_resolution(arg.v)
    /\ UNCHANGED <<arg, Tables, DecompState, Elsewhere>>

NextLookup ==
    \/ BracketType
    \/ OpeningBracket
    \/ ClosingBracket
    \/ Mirror
    \/ Mask
    \/ NeedsResolution

InitCall == op = "none" /\ arg = NoArg /\ res = None

InitInput ==
    /\ op = "none" /\ res = None
    /\ \/ \E ch \in Chars : arg = CharArg(ch)
       \/ \E c \in BidiClass : arg = ClassArg(c)

InitNoDecomp ==
    /\ DECOMP = <<>> /\ dsrc = NoChar /\ dmode = "canonical"
    /\ stack = <<>> /\ out = <<>> /\ steps = 0 /\ pc = "idle"

InitBrackets ==
    /\ \E n \in 0..MaxPairs : BRACKETS \in PairTables(n)
    /\ IsBracketTable(BRACKETS)
    /\ MIRRORS = SampleMirrors
    /\ bsearch_impl \in BSearchImpls
    /\ InitInput
    /\ InitNoDecomp
    /\ InitElsewhere

InitMirrors ==
    /\ BRACKETS = SampleBrackets
    /\ \E n \in 0..MaxPairs : MIRRORS \in PairTables(n)
    /\ IsMirrorTable(MIRRORS)
    /\ bsearch_impl \in BSearchImpls
    /\ InitInput
    /\ InitNoDecomp
    /\ InitElsewhere

SpecBrackets == InitBrackets /\ [][NextLookup]_vars
SpecMirrors == InitMirrors /\ [][NextLookup]_vars

(***************************************************************************)
(* Decomposition (text/compose.rs, called from Codepoint::decompose and    *)
(* decompose_compatible).                                                  *)
(*                                                                         *)
(* The data maps a code point to its one-step mapping: none, a canonical   *)
(* mapping or a compatibility mapping, of one or two code points.          *)
(* Expansion is iterative over an explicit stack and stops expanding an    *)
(* item at MaxDepth.  Hangul syllables are not in the data.                *)
(*                                                                         *)
(* Codepoint::compose forwards to compose::compose_pair, whose code and    *)
(* composition data are not under src/; what it returns for a pair is not  *)
(* modelled.                                                               *)
(***************************************************************************)
Cps == 0..MaxCp

MaxDepth == 3
MaxMapLen == 2

SBase == 44032   \* U+AC00
LBase == 4352    \* U+1100
VBase == 4449    \* U+1161
TBase == 4519    \* U+11A7
LCount == 19
VCount == 21
TCount == 28
NCount == VCount * TCount
SCount == LCount * NCount

HangulSyllables == SBase..(SBase + SCount - 1)

is_hangul(c) == c >= SBase /\ c < SBase + SCount

decompose_hangul_always_trailing(c) ==
    LET si == c - SBase
    IN  <<LBase + (si \div NCount), VBase + ((si % NCount) \div TCount),
          TBase + (si % TCount)>>

decompose_hangul(c) ==
    LET si == c - SBase
        li == si \div NCount
        vi == (si % NCount) \div TCount
        ti == si % TCount
    IN  IF ti > 0
        THEN <<LBase + li, VBase + vi, TBase + ti>>
        ELSE <<LBase + li, VBase + vi>>

NoMapping == [kind |-> "none", map |-> <<>>]

Mapping(c) == IF c \in DOMAIN DECOMP THEN DECOMP[c] ELSE NoMapping

\* does the mode expand the mapping of cp?
has_mapping_any_kind(cp, mode) == Mapping(cp).kind # "none"

has_mapping(cp, mode) ==
    \/ Mapping(cp).kind = "canonical"
    \/ (mode = "compatible" /\ Mapping(cp).kind = "compat")

can_expand_unbounded(cp, depth, mode) == has_mapping(cp, mode)

can_expand(cp, depth, mode) == has_mapping(cp, mode) /\ depth < MaxDepth

RECURSIVE SumPowers(_, _)
SumPowers(b, d) == IF d = 0 THEN 1 ELSE 1 + b * SumPowers(b, d - 1)

\* the most stack items one sequence can ever pop
StepBound == SumPowers(MaxMapLen, MaxDepth)
StepCap == StepBound + 2

DTable == <<DECOMP>>
DSeq == <<dsrc, dmode, stack, out, steps, pc>>
Call == <<op, arg, res>>

\* decompose(ch) / decompose_compat(ch): a fresh sequence over ch
StartDecompose(ch, mode) ==
    /\ dsrc' = ch /\ dmode' = mode
    /\ stack' = <<[cp |-> ch, depth |-> 0]>>
    /\ out' = <<>> /\ steps' = 0 /\ pc' = "expanding"
    /\ op' = (IF mode = "canonical" THEN "decompose" ELSE "decompose_compatible")
    /\ arg' = CharArg(ch) /\ res' = None
    /\ UNCHANGED <<Tables, DTable, Elsewhere>>

\* one expansion step: take the next item, yield it or replace it by its mapping
ExpandStep ==
    /\ pc = "expanding" /\ stack # <<>> /\ steps < StepCap
    /\ LET item == Head(stack)
           rest == Tail(stack)
           m == Mapping(item.cp).map
           pushed == [i \in 1..Len(m) |-> [cp |-> m[i], depth |-> item.depth + 1]]
           expand == ~is_hangul(item.cp) /\ can_expand(item.cp, item.depth, dmode)
       IN  /\ stack' = (IF expand THEN pushed \o rest ELSE rest)
           /\ out' = (IF is_hangul(item.cp) THEN out \o decompose_hangul(item.cp)
                      ELSE IF expand THEN out
                      ELSE Append(out, item.cp))
           /\ pc' = (IF stack' = <<>> THEN "done" ELSE "expanding")
    /\ steps' = steps + 1
    /\ UNCHANGED <<Tables, DTable, dsrc, dmode, Call, Elsewhere>>

(***************************************************************************)
(* Decomposition data.  Code points are numbered so that the MaxMapped (or *)
(* fewer) that carry a mapping are the highest ones.  A mapping is a       *)
(* canonical singleton, a canonical pair or a compatibility singleton.     *)
(* A table may be cyclic: the UCD never is, the expansion must not depend  *)
(* on that.                                                                *)
(***************************************************************************)
MappedEntries ==
    {[kind |-> "canonical", map |-> m] : m \in UNION {[1..n -> Cps] : n \in 1..MaxMapLen}}
    \cup {[kind |-> "compat", map |-> m] : m \in [1..1 -> Cps]}

MappedCps(k) == {c \in Cps : c > MaxCp - k}

DecompTable(f) == [c \in Cps |-> IF c \in DOMAIN f THEN f[c] ELSE NoMapping]

IsDecompTable(t) ==
    \E k \in 0..MaxMapped : \E f \in [MappedCps(k) -> MappedEntries] :
        t = DecompTable(f)

EmptyDecomp == [c \in Cps |-> NoMapping]

Range(f) == {f[i] : i \in DOMAIN f}

RECURSIVE ReachWithin(_, _)
ReachWithin(S, n) ==
    IF n = 0 THEN S
    ELSE ReachWithin(S \cup UNION {Range(Mapping(c).map) : c \in S}, n - 1)

Reachable(c) == ReachWithin(Range(Mapping(c).map), MaxCp + 1)

\* the first syllable (two jamo) and the last one (three jamo)
HangulSamples == {SBase, SBase + SCount - 1}

Modes == {"canonical", "compatible"}

InitSeq ==
    /\ dsrc = NoChar /\ dmode = "canonical" /\ stack = <<>> /\ out = <<>>
    /\ steps = 0 /\ pc = "idle"

NextDecomp ==
    \/ \E ch \in Cps \cup HangulSamples, mode \in Modes : StartDecompose(ch, mode)
    \/ ExpandStep

\* every syllable, each decomposed once from the idle state
NextHangul ==
    \/ /\ pc = "idle"
       /\ \E ch \in HangulSyllables, mode \in Modes : StartDecompose(ch, mode)
    \/ ExpandStep

InitDecomp ==
    /\ BRACKETS = SampleBrackets /\ MIRRORS = SampleMirrors /\ bsearch_impl = "probe"
    /\ InitCall
    /\ IsDecompTable(DECOMP)
    /\ InitSeq
    /\ InitElsewhere

InitHangul ==
    /\ BRACKETS = SampleBrackets /\ MIRRORS = SampleMirrors /\ bsearch_impl = "probe"
    /\ InitCall
    /\ DECOMP = EmptyDecomp
    /\ InitSeq
    /\ InitElsewhere

SpecDecomp == InitDecomp /\ [][NextDecomp]_vars
SpecHangul == InitHangul /\ [][NextHangul]_vars

(***************************************************************************)
(* Properties (unicode.rs 23-33, 114-176): a u16 handle whose low 13 bits  *)
(* are an index into RECORDS and whose bits 13 and 14 are a boundary field *)
(* the text analysers use as scratch.                                      *)
(*                                                                         *)
(* get_record_index and RECORDS live in unicode_data.rs: a paged table     *)
(* over the code points 0..0x10FFFF, surrogates included as the UCD lists  *)
(* them, in which an unassigned code point has record 0.  Past 0x10FFFF    *)
(* the generated lookup either answers record 0 or indexes its pages out   *)
(* of bounds and panics (range_check).  Nothing under src/ bounds          *)
(* RECORDS.len() or the index get_record_index returns: Properties::new    *)
(* only truncates the index with `as u16`.  The model ranges over tables   *)
(* on a sample of code points and over three table sizes: two records, as  *)
(* many as 13 bits can index, and more than 16 bits can index.             *)
(***************************************************************************)
MaxBoundaryArg == 5   \* boundary arguments are 0..MaxBoundaryArg and three wide ones

OutsideProps == <<Tables, DecompState, ScriptVars, LoopVars, ThreadVars, RouterVars>>

U16 == 65536
RECORD_MASK == 8191
BOUNDARY_SHIFT == 13
MaxScalar == 1114111

as_u16(x) == x % U16

IsSurrogate(ch) == ch >= 55296 /\ ch <= 57343
IsScalarValue(ch) == ch >= 0 /\ ch <= MaxScalar /\ ~IsSurrogate(ch)

Panic == [tag |-> "Panic", val |-> NoChar]

get_record_index(ch) ==
    IF ch > MaxScalar
    THEN (IF range_check = "default" THEN Some(0) ELSE Panic)
    ELSE IF ch \in DOMAIN RECORD_INDEX THEN Some(RECORD_INDEX[ch])
    ELSE Some(0)

\* Properties::new: Self(get_record_index(ch as usize) as u16)
Properties_new(ch) ==
    LET r == get_record_index(ch)
    IN  IF r.tag = "Panic" THEN Panic ELSE Some(as_u16(r.val))

\* #[derive(Default)] on Properties(u16)
Properties_default == 0

\* self.0 >> BOUNDARY_SHIFT
boundary(p) == p \div (2 ^ BOUNDARY_SHIFT)

\* self.0 = (self.0 & RECORD_MASK) | (boundary & 0b11) << BOUNDARY_SHIFT
set_boundary_keeps_old_bits(p, b) ==
    BitOr(p, as_u16(BitAnd(b, 3) * (2 ^ BOUNDARY_SHIFT)))
set_boundary_low_shift(p, b) ==
    BitOr(BitAnd(p, RECORD_MASK), as_u16(BitAnd(b, 3) * (2 ^ (BOUNDARY_SHIFT - 1))))
set_boundary(p, b) ==
    BitOr(BitAnd(p, RECORD_MASK), as_u16(BitAnd(b, 3) * (2 ^ BOUNDARY_SHIFT)))

\* takes self by value (Properties is Copy), updates the copy and returns it
with_boundary(p, b) == set_boundary(p, b)

\* the index record() reads RECORDS at: (self.0 & RECORD_MASK) as usize
record_index_wide_mask(p) == BitAnd(p, 2 * RECORD_MASK + 1)
record_index(p) == BitAnd(p, RECORD_MASK)

BoundaryArg(b) == [t |-> "boundary", v |-> b]

\* Properties::from(ch: char) and from(&char)
FromChar(ch) ==
    /\ ~aborted
    /\ op' = "from_char" /\ arg' = CharArg(ch)
    /\ res' = Properties_new(ch) /\ props' = res'.val
    /\ UNCHANGED <<RECORD_INDEX, RECORDS_len, range_check, aborted, OutsideProps>>

\* Properties::from(ch: u32) and from(&u32)
FromU32(ch) ==
    /\ ~aborted
    /\ op' = "from_u32" /\ arg' = CharArg(ch)
    /\ res' = Properties_new(ch)
    /\ aborted' = (res'.tag = "Panic")
    /\ props' = (IF aborted' THEN props ELSE res'.val)
    /\ UNCHANGED <<RECORD_INDEX, RECORDS_len, range_check, OutsideProps>>

\* Properties::default()
Default ==
    /\ ~aborted
    /\ op' = "default" /\ arg' = NoArg
    /\ res' = Some(Properties_default) /\ props' = Properties_default
    /\ UNCHANGED <<RECORD_INDEX, RECORDS_len, range_check, aborted, OutsideProps>>

SetBoundary(b) ==
    /\ ~aborted
    /\ op' = "set_boundary" /\ arg' = BoundaryArg(b) /\ res' = None
    /\ props' = set_boundary(props, b)
    /\ UNCHANGED <<RECORD_INDEX, RECORDS_len, range_check, aborted, OutsideProps>>

\* the caller keeps its own value; the updated copy is the result
WithBoundary(b) ==
    /\ ~aborted
    /\ op' = "with_boundary" /\ arg' = BoundaryArg(b)
    /\ res' = Some(with_boundary(props, b))
    /\ UNCHANGED <<PropsVars, OutsideProps>>

Boundary ==
    /\ ~aborted
    /\ op' = "boundary" /\ arg' = NoArg /\ res' = Some(boundary(props))
    /\ UNCHANGED <<PropsVars, OutsideProps>>

\* record(): RECORDS.get_unchecked(index).  An index past the end is
\* undefined behaviour: a build with debug assertions dies; a release build
\* returns a reference to the bytes that follow the table at that slot,
\* which is none of the table's records and may hold any value.
Record ==
    /\ ~aborted
    /\ op' = "record" /\ arg' = NoArg
    /\ IF record_index(props) < RECORDS_len
       THEN res' = Some(record_index(props)) /\ aborted' = FALSE
       ELSE \/ res' = Panic /\ aborted' = TRUE
            \/ /\ res' = [tag |-> "OutOfTable", val |-> record_index(props)]
               /\ aborted' = FALSE
    /\ UNCHANGED <<RECORD_INDEX, RECORDS_len, range_check, props, OutsideProps>>

\* 'A', an unassigned code point, alef, the surrogate range's ends, the last
\* code point, and two values past it
U32Samples == {65, 888, 1488, 55296, 57343, MaxScalar, MaxScalar + 1, 2147483647}
CharSamples == {ch \in U32Samples : IsScalarValue(ch)}
TabulatedSamples == {65, 1488, 55296, 57343}

BoundaryArgs == (0..MaxBoundaryArg) \cup {RECORD_MASK, RECORD_MASK + 1, U16 - 1}

\* a table of n records: the indices the sample may carry, any below n
IndexSamples(n) == {i \in {0, 1, RECORD_MASK, RECORD_MASK + 1, n - 1} : i < n}
RecordCounts == {2, RECORD_MASK + 1, U16 + 2}

NextProps ==
    \/ \E ch \in CharSamples : FromChar(ch)
    \/ \E ch \in U32Samples : FromU32(ch)
    \/ Default
    \/ \E b \in BoundaryArgs : SetBoundary(b)
    \/ \E b \in BoundaryArgs : WithBoundary(b)
    \/ Boundary
    \/ Record

InitProps ==
    /\ BRACKETS = SampleBrackets /\ MIRRORS = SampleMirrors /\ bsearch_impl = "probe"
    /\ InitCall
    /\ InitNoDecomp
    /\ RECORDS_len \in RecordCounts
    /\ \E f \in [TabulatedSamples -> IndexSamples(RECORDS_len)] :
           f[55296] = f[57343] /\ RECORD_INDEX = f
    /\ range_check \in {"default", "panic"}
    /\ props = Properties_default /\ aborted = FALSE
    /\ InitNoScript
    /\ InitNoLoop
    /\ InitNoThreads
    /\ InitNoRouter

SpecProps == InitProps /\ [][NextProps]_vars

(***************************************************************************)
(* Script (unicode.rs 339-373).  The enumeration and SCRIPTS_BY_TAG are    *)
(* generated data (unicode_data.rs): the scripts of the UCD, and the       *)
(* (OpenType tag, script) pairs in ascending tag order, one row per tag.   *)
(* Tags are u32 and are drawn from Chars.                                  *)
(***************************************************************************)
Script ==
    {"Adlam", "Ahom", "AnatolianHieroglyphs", "Arabic", "Armenian", "Avestan",
     "Balinese", "Bamum", "BassaVah", "Batak", "Bengali", "Bhaiksuki",
     "Bopomofo", "Brahmi", "Braille", "Buginese", "Buhid",
     "CanadianAboriginal", "Carian", "CaucasianAlbanian", "Chakma", "Cham",
     "Cherokee", "Chorasmian", "Common", "Coptic", "Cuneiform", "Cypriot",
     "Cyrillic", "Deseret", "Devanagari", "DivesAkuru", "Dogra", "Duployan",
     "EgyptianHieroglyphs", "Elbasan", "Elymaic", "Ethiopic", "Georgian",
     "Glagolitic", "Gothic", "Grantha", "Greek", "Gujarati", "GunjalaGondi",
     "Gurmukhi", "Han", "Hangul", "HanifiRohingya", "Hanunoo", "Hatran",
     "Hebrew", "Hiragana", "ImperialAramaic", "Inherited",
     "InscriptionalPahlavi", "InscriptionalParthian", "Javanese", "Kaithi",
     "Kannada", "Katakana", "KayahLi", "Kharoshthi", "KhitanSmallScript",
     "Khmer", "Khojki", "Khudawadi", "Lao", "Latin", "Lepcha", "Limbu",
     "LinearA", "LinearB", "Lisu", "Lycian", "Lydian", "Mahajani", "Makasar",
     "Malayalam", "Mandaic", "Manichaean", "Marchen", "MasaramGondi",
     "Medefaidrin", "MeeteiMayek", "MendeKikakui", "MeroiticCursive",
     "MeroiticHieroglyphs", "Miao", "Modi", "Mongolian", "Mro", "Multani",
     "Myanmar", "Nabataean", "Nandinagari", "NewTaiLue", "Newa", "Nko",
     "Nushu", "NyiakengPuachueHmong", "Ogham", "OlChiki", "OldHungarian",
     "OldItalic", "OldNorthArabian", "OldPermic", "OldPersian", "OldSogdian",
     "OldSouthArabian", "OldTurkic", "Oriya", "Osage", "Osmanya",
     "PahawhHmong", "Palmyrene", "PauCinHau", "PhagsPa", "Phoenician",
     "PsalterPahlavi", "Rejang", "Runic", "Samaritan", "Saurashtra",
     "Sharada", "Shavian", "Siddham", "SignWriting", "Sinhala", "Sogdian",
     "SoraSompeng", "Soyombo", "Sundanese", "SylotiNagri", "Syriac",
     "Tagalog", "Tagbanwa", "TaiLe", "TaiTham", "TaiViet", "Takri", "Tamil",
     "Tangut", "Telugu", "Thaana", "Thai", "Tibetan", "Tifinagh", "Tirhuta",
     "Ugaritic", "Unknown", "Vai", "Wancho", "WarangCiti", "Yezidi", "Yi",
     "ZanabazarSquare"}

NoScript == "none"
ScriptNone == [tag |-> "None", val |-> NoScript]
ScriptSome(s) == [tag |-> "Some", val |-> s]

TagArg(tag) == [t |-> "tag", v |-> tag]
ScriptArg(s) == [t |-> "script", v |-> s]

\* match SCRIPTS_BY_TAG.binary_search_by(|x| x.0.cmp(&tag))
from_opentype_row_before(tag) ==
    LET r == binary_search_by(bsearch_impl, Column(SCRIPTS_BY_TAG, 1), tag)
    IN  IF r.ok /\ r.idx > 0 THEN ScriptSome(SCRIPTS_BY_TAG[r.idx][2]) ELSE ScriptNone
from_opentype(tag) ==
    LET r == binary_search_by(bsearch_impl, Column(SCRIPTS_BY_TAG, 1), tag)
    IN  IF r.ok THEN ScriptSome(SCRIPTS_BY_TAG[r.idx + 1][2]) ELSE ScriptNone

\* matches!(self, Script::Arabic | Script::Mongolian | ... | Script::Adlam)
is_joined_without_adlam(s) ==
    \/ s = "Arabic" \/ s = "Mongolian" \/ s = "Syriac" \/ s = "Nko"
    \/ s = "PhagsPa" \/ s = "Mandaic" \/ s = "Manichaean"
    \/ s = "PsalterPahlavi"
is_joined(s) ==
    \/ s = "Arabic" \/ s = "Mongolian" \/ s = "Syriac" \/ s = "Nko"
    \/ s = "PhagsPa" \/ s = "Mandaic" \/ s = "Manichaean"
    \/ s = "PsalterPahlavi" \/ s = "Adlam"

FromOpentype ==
    /\ arg.t = "tag"
    /\ op' = "from_opentype" /\ res' = from_opentype(arg.v)
    /\ UNCHANGED <<arg, Tables, DecompState, Elsewhere>>

IsJoined ==
    /\ arg.t = "script"
    /\ op' = "is_joined" /\ res' = is_joined(arg.v)
    /\ UNCHANGED <<arg, Tables, DecompState, Elsewhere>>

NextScript ==
    \/ FromOpentype
    \/ IsJoined

\* scripts of the sample tables: one that joins, two that do not
ScriptSamples == {"Arabic", "Devanagari", "Latin"}

\* ("arab", Arabic) ("dev2", Devanagari) ("deva", Devanagari) ("latn", Latin)
SampleScripts == <<<<0, "Arabic">>, <<1, "Devanagari">>, <<2, "Devanagari">>, <<3, "Latin">>>>

InitScript ==
    /\ BRACKETS = SampleBrackets /\ MIRRORS = SampleMirrors
    /\ bsearch_impl \in BSearchImpls
    /\ op = "none" /\ res = None
    /\ \/ /\ \E n \in 0..MaxPairs : SCRIPTS_BY_TAG \in [1..n -> Chars \X ScriptSamples]
          /\ SortedByFirst(SCRIPTS_BY_TAG)
          /\ \E tag \in Chars : arg = TagArg(tag)
       \/ /\ SCRIPTS_BY_TAG = SampleScripts
          /\ \E s \in Script : arg = ScriptArg(s)
    /\ InitNoDecomp
    /\ InitNoProps
    /\ InitNoLoop
    /\ InitNoThreads
    /\ InitNoRouter

SpecScript == InitScript /\ [][NextScript]_vars

(***************************************************************************)
(* EventLoop and EventLoopProxy (wa/src/event_loop.rs).                    *)
(*                                                                         *)
(* Threads call EventLoop::build concurrently; the atomic swap on          *)
(* EVENT_LOOP_CREATED is one step and the creation of the channel another. *)
(* The EventLoop holds the receiver in an Rc, a pub field that can be      *)
(* cloned: the receiver lives until its last holder lets go.  A proxy owns *)
(* a clone of the channel's sender and a run-loop source of its own, and   *)
(* is Sync: any thread may call send_event on it, also while another is    *)
(* inside.  send_event is three steps (send, signal the source, wake the   *)
(* run loop) that interleave with every other thread.  Events are numbered *)
(* in the order the calls are made, so that each is told from the others.  *)
(***************************************************************************)
MaxBuilders == 2   \* threads that call EventLoop::build
MaxProxies == 2    \* proxies made in a run
MaxCallers == 2    \* threads that call send_event
MaxSends == 2      \* send_event calls made in a run
MaxClones == 1     \* clones of EventLoop::receiver (an Rc) held at a time

Builders == 1..MaxBuilders
Proxies == 1..MaxProxies
Callers == 1..MaxCallers

OutsideLoop == <<Tables, DecompState, PropsVars, ScriptVars, ThreadVars, RouterVars>>

ThreadArg(b) == [t |-> "thread", v |-> b]

\* Result<EventLoop<T>, EventLoopError>
BuildOk == [tag |-> "Ok", val |-> "EventLoop"]
BuildErr == [tag |-> "Err", val |-> "RecreationAttempt"]

\* Result<(), EventLoopClosed<T>>
SendOk == [tag |-> "Ok", val |-> 0]
EventLoopClosed(e) == [tag |-> "Err", val |-> e]

\* the value EVENT_LOOP_CREATED.swap(true, Ordering::Relaxed) stores
swap_value_false == FALSE
swap_value == TRUE

\* CFRunLoopWakeUp(rl): a wake-up of the main run loop is pending from here
\* on, whether the loop is waiting or not
CFRunLoopWakeUp_noop(w) == w
CFRunLoopWakeUp(w) == TRUE

MainState == <<main_pc, received>>
BuildState == <<EVENT_LOOP_CREATED, build_pc, built>>
ChannelState == <<event_loop, receiver_clones, receiver, chan>>
ProxyState == <<proxy, send_pc, via, cur, signalled, wake, next_event>>

\* build(), first step: the swap; a thread that reads true returns at once
BuildSwap(b) ==
    /\ build_pc[b] = "idle"
    /\ EVENT_LOOP_CREATED' = swap_value
    /\ IF EVENT_LOOP_CREATED
       THEN /\ op' = "build" /\ arg' = ThreadArg(b) /\ res' = BuildErr
            /\ UNCHANGED build_pc
       ELSE /\ build_pc' = [build_pc EXCEPT ![b] = "channel"]
            /\ UNCHANGED Call
    /\ UNCHANGED <<built, ChannelState, ProxyState, returned_ok, MainState, OutsideLoop>>

\* build(), second step: channel() and Ok(EventLoop { sender, receiver:
\* rx.into() }): the EventLoop holds the one Rc of the receiver
BuildChannel(b) ==
    /\ build_pc[b] = "channel"
    /\ build_pc' = [build_pc EXCEPT ![b] = "idle"]
    /\ event_loop' = "alive" /\ receiver_clones' = 0
    /\ receiver' = "alive" /\ chan' = <<>>
    /\ built' = built + 1
    /\ op' = "build" /\ arg' = ThreadArg(b) /\ res' = BuildOk
    /\ UNCHANGED <<EVENT_LOOP_CREATED, ProxyState, returned_ok, MainState, OutsideLoop>>

\* a holder of the Rc<Receiver> lets go and left holders remain: the
\* receiver is dropped with the last of them, and with it every event
\* still in the channel
Rc_drop(left, rx, q) ==
    IF left = 0 THEN [receiver |-> "dropped", chan |-> <<>>]
    ELSE [receiver |-> rx, chan |-> q]

\* the EventLoop goes out of scope: its sender and its Rc of the receiver
\* are dropped
DropEventLoop ==
    /\ event_loop = "alive"
    /\ event_loop' = "dropped"
    /\ receiver' = Rc_drop(receiver_clones, receiver, chan).receiver
    /\ chan' = Rc_drop(receiver_clones, receiver, chan).chan
    /\ op' = "drop" /\ arg' = NoArg /\ res' = None
    /\ UNCHANGED <<receiver_clones, BuildState, ProxyState, returned_ok, MainState, OutsideLoop>>

\* event_loop.receiver.clone(), or the clone of such a clone (receiver is
\* a pub field)
CloneReceiver ==
    /\ event_loop = "alive" \/ receiver_clones > 0
    /\ receiver_clones < MaxClones
    /\ receiver_clones' = receiver_clones + 1
    /\ UNCHANGED <<event_loop, receiver, chan>>
    /\ UNCHANGED <<BuildState, ProxyState, Call, returned_ok, MainState, OutsideLoop>>

\* a clone of the Rc<Receiver> is dropped
DropReceiverClone ==
    /\ receiver_clones > 0
    /\ receiver_clones' = receiver_clones - 1
    /\ LET left == receiver_clones' + (IF event_loop = "alive" THEN 1 ELSE 0)
       IN  /\ receiver' = Rc_drop(left, receiver, chan).receiver
           /\ chan' = Rc_drop(left, receiver, chan).chan
    /\ UNCHANGED event_loop
    /\ UNCHANGED <<BuildState, ProxyState, Call, returned_ok, MainState, OutsideLoop>>

\* EventLoopProxy::new: a source of its own is created (not signalled) and
\* added, the run loop woken
NewProxy(q) ==
    /\ proxy[q] = "none"
    /\ proxy' = [proxy EXCEPT ![q] = "live"]
    /\ signalled' = [signalled EXCEPT ![q] = FALSE]
    /\ wake' = CFRunLoopWakeUp(wake)
    /\ UNCHANGED <<send_pc, via, cur, next_event>>
    /\ UNCHANGED <<BuildState, ChannelState, Call, returned_ok, MainState, OutsideLoop>>

\* event_loop.create_proxy()
CreateProxy(q) ==
    /\ event_loop = "alive"
    /\ NewProxy(q)

\* proxy.clone()
CloneProxy(p, q) ==
    /\ proxy[p] = "live"
    /\ NewProxy(q)

\* thread t is not inside send_event
Ready(t) == send_pc[t] = "idle"

EventArg(e) == [t |-> "event", v |-> e]

\* drop(proxy): CFRelease(self.source), no more; the run loop keeps the
\* source it was given, signalled or not.  No call borrows the proxy then
DropProxy(p) ==
    /\ proxy[p] = "live"
    /\ \A t \in Callers : via[t] = p => Ready(t)
    /\ proxy' = [proxy EXCEPT ![p] = "dropped"]
    /\ UNCHANGED <<send_pc, via, cur, signalled, wake, next_event>>
    /\ UNCHANGED <<BuildState, ChannelState, Call, returned_ok, MainState, OutsideLoop>>

\* self.sender.send(event): Err(SendError(event)) once the receiver is gone
send_newest_first(rx, q, e) ==
    IF rx = "alive" THEN [ok |-> TRUE, chan |-> <<e>> \o q]
    ELSE [ok |-> FALSE, chan |-> q]
send_while_closed(rx, q, e) == [ok |-> TRUE, chan |-> Append(q, e)]
send(rx, q, e) ==
    IF rx = "alive" THEN [ok |-> TRUE, chan |-> Append(q, e)]
    ELSE [ok |-> FALSE, chan |-> q]

\* send_event(&self, event) by thread t on proxy p, first step:
\* self.sender.send(event).map_err(..)?, which returns Err(EventLoopClosed)
\* at once when the send fails; the proxy is Sync, so other threads may be
\* inside send_event on the same proxy
SendEvent(t, p) ==
    /\ proxy[p] = "live" /\ Ready(t)
    /\ next_event < MaxSends
    /\ next_event' = next_event + 1
    /\ LET r == send(receiver, chan, [ev |-> next_event', by |-> p])
       IN  /\ chan' = r.chan
           /\ IF r.ok
              THEN /\ send_pc' = [send_pc EXCEPT ![t] = "sent"]
                   /\ via' = [via EXCEPT ![t] = p]
                   /\ cur' = [cur EXCEPT ![t] = next_event']
                   /\ UNCHANGED Call
              ELSE /\ op' = "send_event" /\ arg' = EventArg(next_event')
                   /\ res' = EventLoopClosed(next_event')
                   /\ UNCHANGED <<send_pc, via, cur>>
    /\ UNCHANGED <<proxy, signalled, wake, event_loop, receiver_clones, receiver>>
    /\ UNCHANGED <<BuildState, returned_ok, MainState, OutsideLoop>>

\* send_event, second step: CFRunLoopSourceSignal(self.source)
SignalSource(t) ==
    /\ send_pc[t] = "sent"
    /\ send_pc' = [send_pc EXCEPT ![t] = "signalled"]
    /\ signalled' = [signalled EXCEPT ![via[t]] = TRUE]
    /\ UNCHANGED <<proxy, via, cur, wake, next_event>>
    /\ UNCHANGED <<BuildState, ChannelState, Call, returned_ok, MainState, OutsideLoop>>

\* send_event, third step: CFRunLoopWakeUp(rl); Ok(()): the call is over
WakeUp(t) ==
    /\ send_pc[t] = "signalled"
    /\ wake' = CFRunLoopWakeUp(wake)
    /\ op' = "send_event" /\ arg' = EventArg(cur[t]) /\ res' = SendOk
    /\ returned_ok' = returned_ok \cup {cur[t]}
    /\ send_pc' = [send_pc EXCEPT ![t] = "idle"]
    /\ via' = [via EXCEPT ![t] = 1]
    /\ cur' = [cur EXCEPT ![t] = 0]
    /\ UNCHANGED <<proxy, signalled, next_event>>
    /\ UNCHANGED <<BuildState, ChannelState, MainState, OutsideLoop>>

\* the main run loop leaves its wait: the pending wake-up is consumed and
\* the signalled sources are performed (event_loop_proxy_handler is empty)
MainWake ==
    /\ main_pc = "waiting" /\ wake
    /\ main_pc' = "awake" /\ wake' = FALSE
    /\ signalled' = [p \in Proxies |-> FALSE]
    /\ UNCHANGED <<proxy, send_pc, via, cur, next_event, returned_ok, received>>
    /\ UNCHANGED <<BuildState, ChannelState, Call, OutsideLoop>>

\* receiver.try_recv() gives the oldest event of the channel
try_recv(q) == [ev |-> Head(q), chan |-> Tail(q)]

\* the main thread, awake, takes an event from the receiver
Receive ==
    /\ main_pc = "awake" /\ receiver = "alive" /\ chan # <<>>
    /\ received' = Append(received, try_recv(chan).ev)
    /\ chan' = try_recv(chan).chan
    /\ UNCHANGED <<event_loop, receiver_clones, receiver, main_pc, returned_ok>>
    /\ UNCHANGED <<ProxyState, BuildState, Call, OutsideLoop>>

\* try_recv() found nothing to take: the run loop waits again
MainSleep ==
    /\ main_pc = "awake" /\ (receiver # "alive" \/ chan = <<>>)
    /\ main_pc' = "waiting"
    /\ UNCHANGED <<received, returned_ok, ProxyState>>
    /\ UNCHANGED <<BuildState, ChannelState, Call, OutsideLoop>>

\* proxies and calling threads carry no identity in the code: a new proxy
\* takes the lowest number not yet given, and the next call of send_event
\* is made by the lowest-numbered thread that is not inside one
NextProxy(q) == proxy[q] = "none" /\ \A r \in Proxies : r < q => proxy[r] # "none"
NextCaller(t) == Ready(t) /\ \A r \in Callers : r < t => ~Ready(r)

NextLoop ==
    \/ \E b \in Builders : BuildSwap(b)
    \/ \E b \in Builders : BuildChannel(b)
    \/ DropEventLoop
    \/ CloneReceiver
    \/ DropReceiverClone
    \/ \E q \in Proxies : NextProxy(q) /\ CreateProxy(q)
    \/ \E p, q \in Proxies : NextProxy(q) /\ CloneProxy(p, q)
    \/ \E p \in Proxies : DropProxy(p)
    \/ \E t \in Callers, p \in Proxies : NextCaller(t) /\ SendEvent(t, p)
    \/ \E t \in Callers : SignalSource(t)
    \/ \E t \in Callers : WakeUp(t)

\* no send_event has been called and no proxy made
InitProxies ==
    /\ proxy = [p \in Proxies |-> "none"]
    /\ send_pc = [t \in Callers |-> "idle"]
    /\ via = [t \in Callers |-> 1]
    /\ cur = [t \in Callers |-> 0]
    /\ signalled = [p \in Proxies |-> FALSE]
    /\ wake = FALSE
    /\ next_event = 0
    /\ returned_ok = {} /\ main_pc = "waiting" /\ received = <<>>

InitLoop ==
    /\ BRACKETS = SampleBrackets /\ MIRRORS = SampleMirrors /\ bsearch_impl = "probe"
    /\ InitCall
    /\ InitNoDecomp
    /\ InitNoProps
    /\ InitNoScript
    /\ EVENT_LOOP_CREATED = FALSE
    /\ build_pc = [b \in Builders |-> "idle"]
    /\ built = 0
    /\ event_loop = "none" /\ receiver_clones = 0
    /\ receiver = "none" /\ chan = <<>>
    /\ InitProxies
    /\ InitNoThreads
    /\ InitNoRouter

SpecLoop == InitLoop /\ [][NextLoop]_vars

\* the senders against the main thread, from the state in which build() has
\* returned Ok(EventLoop) once
NextDelivery ==
    \/ DropEventLoop
    \/ CloneReceiver
    \/ DropReceiverClone
    \/ \E q \in Proxies : NextProxy(q) /\ CreateProxy(q)
    \/ \E p, q \in Proxies : NextProxy(q) /\ CloneProxy(p, q)
    \/ \E p \in Proxies : DropProxy(p)
    \/ \E t \in Callers, p \in Proxies : NextCaller(t) /\ SendEvent(t, p)
    \/ \E t \in Callers : SignalSource(t)
    \/ \E t \in Callers : WakeUp(t)
    \/ MainWake
    \/ Receive
    \/ MainSleep

InitDelivery ==
    /\ BRACKETS = SampleBrackets /\ MIRRORS = SampleMirrors /\ bsearch_impl = "probe"
    /\ op = "build" /\ arg = ThreadArg(1) /\ res = BuildOk
    /\ InitNoDecomp
    /\ InitNoProps
    /\ InitNoScript
    /\ EVENT_LOOP_CREATED = swap_value
    /\ build_pc = [b \in Builders |-> "idle"]
    /\ built = 1
    /\ event_loop = "alive" /\ receiver_clones = 0
    /\ receiver = "alive" /\ chan = <<>>
    /\ InitProxies
    /\ InitNoThreads
    /\ InitNoRouter

SpecDelivery == InitDelivery /\ [][NextDelivery]_vars

(***************************************************************************)
(* Several threads calling the lookups at once.  The tables are statics    *)
(* read in safe code; what a call works on besides them is its own: the    *)
(* argument, the locals of the binary search it is in, the result, and for *)
(* decompose the Decompose value (stack and output) it returned to the     *)
(* caller.  A call advances one table read at a time: one iteration of the *)
(* binary search, one read of the record index, one expansion step.  The   *)
(* steps of the threads interleave in any order.  A lookup runs to its     *)
(* return; a Decompose sequence may be abandoned at any point.             *)
(***************************************************************************)
MaxThreads == 2

Threads == 1..MaxThreads

OutsideThreads == <<Tables, Call, DecompState, PropsVars, ScriptVars, LoopVars, RouterVars>>

\* the locals of binary_search_by: the column it compares (x.0 or x.1) and
\* left/right/size of the probing loop, or base (held in left) and size of
\* the branchless one
NoFrame == [col |-> 0, left |-> 0, right |-> 0, size |-> 0]
search_begin(k, n) == [col |-> k, left |-> 0, right |-> n, size |-> n]

\* a thread's locals: the call it made, the search it is in and, for
\* decompose, the sequence
IdleThread ==
    [op |-> "none", arg |-> NoChar, res |-> None, mode |-> "canonical",
     stack |-> <<>>, out |-> <<>>, pc |-> "idle", frame |-> NoFrame]

\* the read-only lookups, by name, each computed in one go
lookup(f, ch) ==
    IF f = "bracket_type" THEN bracket_type(ch)
    ELSE IF f = "mirror" THEN mirror(ch)
    ELSE Properties_new(ch)

\* the table a lookup searches
searched(f) == IF f = "mirror" THEN MIRRORS ELSE BRACKETS

\* the call of a lookup: bracket_type starts with closing_bracket, which
\* like mirror searches x.0; properties starts with get_record_index
lookup_call(f, ch) ==
    [op |-> f, arg |-> ch, res |-> None, mode |-> "canonical",
     stack |-> <<>>, out |-> <<>>,
     pc |-> (IF f = "properties" THEN "indexing" ELSE "searching"),
     frame |-> (IF f = "properties" THEN NoFrame
                ELSE search_begin(1, Len(searched(f))))]

\* one iteration of binary_search_by on the locals fr: the comparator is
\* called once; the search goes on with new locals or returns r
search_iter(impl, col, c, fr) ==
    IF impl = "probe"
    THEN IF fr.left < fr.right
         THEN LET mid == fr.left + (fr.size \div 2)
                  cmp == Cmp(col[mid + 1], c)
              IN  IF cmp = "Less"
                  THEN [done |-> FALSE, r |-> Err(0),
                        frame |-> [fr EXCEPT !.left = mid + 1,
                                             !.size = fr.right - (mid + 1)]]
                  ELSE IF cmp = "Greater"
                  THEN [done |-> FALSE, r |-> Err(0),
                        frame |-> [fr EXCEPT !.right = mid, !.size = mid - fr.left]]
                  ELSE [done |-> TRUE, r |-> Ok(mid), frame |-> NoFrame]
         ELSE [done |-> TRUE, r |-> Err(fr.left), frame |-> NoFrame]
    ELSE IF Len(col) = 0 THEN [done |-> TRUE, r |-> Err(0), frame |-> NoFrame]
    ELSE IF fr.size > 1
    THEN LET half == fr.size \div 2
             mid == fr.left + half
             cmp == Cmp(col[mid + 1], c)
         IN  [done |-> FALSE, r |-> Err(0),
              frame |-> [fr EXCEPT !.left = (IF cmp = "Greater" THEN fr.left ELSE mid),
                                   !.size = fr.size - half]]
    ELSE LET cmp == Cmp(col[fr.left + 1], c)
         IN  [done |-> TRUE,
              r |-> (IF cmp = "Equal" THEN Ok(fr.left)
                     ELSE Err(fr.left + (IF cmp = "Less" THEN 1 ELSE 0))),
              frame |-> NoFrame]

\* one step of a lookup in its search: an iteration, and on its return what
\* mirror, closing_bracket, opening_bracket and bracket_type make of it
search(s) ==
    LET table == searched(s.op)
        it == search_iter(bsearch_impl, Column(table, s.frame.col), s.arg, s.frame)
        returns(r) == [s EXCEPT !.res = r, !.pc = "done", !.frame = NoFrame]
    IN  IF ~it.done THEN [s EXCEPT !.frame = it.frame]
        ELSE IF s.op = "mirror"
        THEN returns(IF it.r.ok THEN Some(table[it.r.idx + 1][2]) ELSE None)
        ELSE IF s.frame.col = 1
        THEN IF it.r.ok THEN returns(BracketOpen(table[it.r.idx + 1][2]))
             ELSE [s EXCEPT !.frame = search_begin(2, Len(table))]
        ELSE returns(IF it.r.ok THEN BracketClose(table[it.r.idx + 1][1])
                     ELSE BracketNone)

\* Properties::new in two steps: get_record_index(ch as usize), kept in a
\* local, then `as u16`
index(s) ==
    IF s.frame.col = 0
    THEN LET r == get_record_index(s.arg)
         IN  IF r.tag = "Panic" THEN [s EXCEPT !.res = Panic, !.pc = "done"]
             ELSE [s EXCEPT !.frame = [NoFrame EXCEPT !.col = 3, !.left = r.val]]
    ELSE [s EXCEPT !.res = Some(as_u16(s.frame.left)), !.pc = "done",
                   !.frame = NoFrame]

\* decompose(ch) / decompose_compat(ch): a fresh Decompose value
start_decompose(ch, mode) ==
    [op |-> (IF mode = "canonical" THEN "decompose" ELSE "decompose_compatible"),
     arg |-> ch, res |-> None, mode |-> mode,
     stack |-> <<[cp |-> ch, depth |-> 0]>>, out |-> <<>>, pc |-> "expanding",
     frame |-> NoFrame]

\* one expansion step on a Decompose value (ExpandStep, on a value)
expand(s) ==
    LET item == Head(s.stack)
        rest == Tail(s.stack)
        m == Mapping(item.cp).map
        pushed == [i \in 1..Len(m) |-> [cp |-> m[i], depth |-> item.depth + 1]]
        exp == ~is_hangul(item.cp) /\ can_expand(item.cp, item.depth, s.mode)
        stack2 == IF exp THEN pushed \o rest ELSE rest
        out2 == IF is_hangul(item.cp) THEN s.out \o decompose_hangul(item.cp)
                ELSE IF exp THEN s.out
                ELSE Append(s.out, item.cp)
    IN  [s EXCEPT !.stack = stack2, !.out = out2,
                  !.pc = IF stack2 = <<>> THEN "done" ELSE "expanding"]

\* the next step of the call with locals s
advance(s) ==
    IF s.pc = "searching" THEN search(s)
    ELSE IF s.pc = "indexing" THEN index(s)
    ELSE expand(s)

\* the step of thread t, as an update of all the threads' locals
step_thread_shared_locals(locals, t) ==
    [u \in DOMAIN locals |->
        IF u = t THEN advance(locals[t])
        ELSE IF locals[u].pc = "searching"
        THEN [locals[u] EXCEPT !.frame.left = advance(locals[t]).frame.left,
                               !.frame.right = advance(locals[t]).frame.right,
                               !.frame.size = advance(locals[t]).frame.size]
        ELSE [locals[u] EXCEPT !.out = advance(locals[t]).out]]
step_thread(locals, t) == [locals EXCEPT ![t] = advance(locals[t])]

\* thread t is inside a lookup, which returns before its next call
InLookup(t) == th[t].pc \in {"searching", "indexing"}

ThreadLookup(t, f, ch) ==
    /\ ~InLookup(t)
    /\ th' = [th EXCEPT ![t] = lookup_call(f, ch)]
    /\ UNCHANGED OutsideThreads

ThreadDecompose(t, ch, mode) ==
    /\ ~InLookup(t)
    /\ th' = [th EXCEPT ![t] = start_decompose(ch, mode)]
    /\ UNCHANGED OutsideThreads

ThreadStep(t) ==
    /\ th[t].pc \in {"searching", "indexing", "expanding"}
    /\ th' = step_thread(th, t)
    /\ UNCHANGED OutsideThreads

\* a two-level decomposition: the last code point maps canonically to the
\* one before it and the first, the one before it by compatibility to the
\* first
SampleDecomp ==
    [c \in Cps |->
        IF c = MaxCp THEN [kind |-> "canonical", map |-> <<MaxCp - 1, 0>>]
        ELSE IF c = MaxCp - 1 THEN [kind |-> "compat", map |-> <<0>>]
        ELSE NoMapping]

SampleRecordIndex == [ch \in TabulatedSamples |-> IF IsSurrogate(ch) THEN 2 ELSE 1]

\* what the threads look up: every character of the sample bracket table
\* (each is absent from a column of it or from the mirror table), a
\* tabulated and an untabulated character of the record index, and an
\* unmapped, a compatibility-mapped and a canonically mapped code point and
\* a Hangul syllable
ThreadChars == {SampleBrackets[i][k] : i \in 1..Len(SampleBrackets), k \in 1..2}
ThreadSamples == {65, 888}
ThreadCps == {0, MaxCp - 1, MaxCp, SBase + SCount - 1}

NextThreads ==
    \/ \E t \in Threads, f \in {"bracket_type", "mirror"}, ch \in ThreadChars :
           ThreadLookup(t, f, ch)
    \/ \E t \in Threads, ch \in ThreadSamples : ThreadLookup(t, "properties", ch)
    \/ \E t \in Threads, ch \in ThreadCps, mode \in Modes :
           ThreadDecompose(t, ch, mode)
    \/ \E t \in Threads : ThreadStep(t)

InitThreads ==
    /\ BRACKETS = SampleBrackets /\ MIRRORS = SampleMirrors
    /\ bsearch_impl \in BSearchImpls
    /\ InitCall
    /\ DECOMP = SampleDecomp /\ InitSeq
    /\ RECORD_INDEX = SampleRecordIndex /\ RECORDS_len = RECORD_MASK + 1
    /\ range_check = "default" /\ props = Properties_default /\ aborted = FALSE
    /\ InitNoScript
    /\ InitNoLoop
    /\ InitNoRouter
    /\ th = [t \in Threads |-> IdleThread]

SpecThreads == InitThreads /\ [][NextThreads]_vars

(***************************************************************************)
(* Router (frontends/cross-wa/src/router/mod.rs): the EventHandler of the  *)
(* window.  It owns the routes, one per window id, and the id of the       *)
(* current one; every handler reaches a route through                      *)
(* self.routes.get_mut(&self.current).                                     *)
(*                                                                         *)
(* Route, the layout of sugarloaf, the superloop and the window functions  *)
(* live outside this file.  A Route is modelled by what the Router makes   *)
(* of it: the configuration it was last given, its font size counted in    *)
(* steps from the configured size, and the number of handler calls that    *)
(* reached it.  The superloop hands process() any event.  performed lists  *)
(* the calls a handler made on the route, the window and the superloop.    *)
(***************************************************************************)
MaxRouteId == 2     \* window ids are 0..MaxRouteId
MaxHandled == 3     \* EventHandler calls made in a run
MaxFontSteps == 1   \* the layout lets the font size move this far from the configured size
MaxQueue == 2       \* graphics in each queue that graphics_take_queues() hands over

RouteIds == 0..MaxRouteId

OutsideRouter ==
    <<Tables, DecompState, RECORD_INDEX, RECORDS_len, range_check, props,
      ScriptVars, LoopVars, ThreadVars>>

\* Route::new(id.into(), .., self.config.clone(), ..)
Route_new(id, cfg) == [id |-> id, config |-> cfg, font_size |-> 0, events |-> 0]

\* self.routes.insert(id, initial_route)
insert(rs, id, r) ==
    [k \in DOMAIN rs \cup {id} |-> IF k = id THEN r ELSE rs[k]]

\* self.routes.get_mut(&self.current): the key of the entry, or None
get_mut_lowest_key(rs, k) ==
    IF DOMAIN rs # {} THEN Some(CHOOSE i \in DOMAIN rs : \A j \in DOMAIN rs : i <= j)
    ELSE None
get_mut(rs, k) == IF k \in DOMAIN rs THEN Some(k) ELSE None

\* the route under key k, reached by one more handler call
reached(rs, k) == [rs EXCEPT ![k].events = @ + 1]

\* EventHandlerAction
Noop == [tag |-> "Noop", val |-> 0]
Render == [tag |-> "Render", val |-> 0]
EventHandlerAction_Init == [tag |-> "Init", val |-> 0]
Update_opcode_zero(opcode) == [tag |-> "Update", val |-> 0]
Update(opcode) == [tag |-> "Update", val |-> opcode]

\* RioEvent, with the payload process() looks at; "Other" stands for the
\* variants the match leaves to its wildcard arm
Event(t, v) == [t |-> t, v |-> v]
PlainEvents ==
    {"Render", "Wakeup", "PowerOn", "Paste", "Copy", "UpdateConfig", "Title",
     "CreateNativeTab", "MouseCursorDirty", "Scroll", "ClipboardLoad",
     "ClipboardStore", "PtyWrite", "Noop", "Other"}
RioEvent ==
    {Event(t, 0) : t \in PlainEvents}
        \cup {Event("UpdateFontSize", a) : a \in 0..3}
        \cup {Event("RequestUpdate", o) : o \in 0..1}

\* layout.reset_font_size / increase_font_size / decrease_font_size: each
\* reports whether the font size changed
reset_font_size(f) == [changed |-> f # 0, font_size |-> 0]
increase_font_size(f) ==
    IF f < MaxFontSteps THEN [changed |-> TRUE, font_size |-> f + 1]
    ELSE [changed |-> FALSE, font_size |-> f]
decrease_font_size(f) ==
    IF f > -MaxFontSteps THEN [changed |-> TRUE, font_size |-> f - 1]
    ELSE [changed |-> FALSE, font_size |-> f]

\* what a handler leaves behind: the action it returns, the routes, the
\* configuration, the clipboard and the calls it made
Outcome(next, rs, cfg, clip, did) ==
    [next |-> next, routes |-> rs, config |-> cfg, clipboard |-> clip,
     performed |-> did]

\* match action { 0 => reset, 2 => increase, 1 => decrease, _ => false }
should_update(action, f) ==
    CASE action = 0 -> [is |-> reset_font_size(f), did |-> <<"reset_font_size">>]
      [] action = 2 -> [is |-> increase_font_size(f), did |-> <<"increase_font_size">>]
      [] action = 1 -> [is |-> decrease_font_size(f), did |-> <<"decrease_font_size">>]
      [] OTHER -> [is |-> [changed |-> FALSE, font_size |-> f], did |-> <<>>]

\* the four calls that follow a change of the font size
Relayout ==
    <<"layout.update", "calculate_bounds", "layout.update", "resize_all_contexts">>

\* the UpdateFontSize(action) arm of process()
update_font_size_relayout_always(action, rs, k, cfg, clip) ==
    IF get_mut(rs, k).tag = "Some"
    THEN LET c == get_mut(rs, k).val
             su == should_update(action, rs[c].font_size)
         IN  Outcome(IF su.is.changed THEN Render ELSE Noop,
                     [reached(rs, c) EXCEPT ![c].font_size = su.is.font_size],
                     cfg, clip, su.did \o Relayout)
    ELSE Outcome(Render, rs, cfg, clip, <<>>)
update_font_size(action, rs, k, cfg, clip) ==
    IF get_mut(rs, k).tag = "Some"
    THEN LET c == get_mut(rs, k).val
             su == should_update(action, rs[c].font_size)
         IN  IF ~su.is.changed
             THEN Outcome(Noop, reached(rs, c), cfg, clip, su.did)
             ELSE Outcome(Render,
                          [reached(rs, c) EXCEPT ![c].font_size = su.is.font_size],
                          cfg, clip, su.did \o Relayout)
    ELSE Outcome(Render, rs, cfg, clip, <<>>)

\* on a route under the current key: the calls in did; else nothing
on_current(rs, k, cfg, clip, did) ==
    IF get_mut(rs, k).tag = "Some"
    THEN Outcome(Noop, reached(rs, get_mut(rs, k).val), cfg, clip, did)
    ELSE Outcome(Noop, rs, cfg, clip, <<>>)

\* process(): the action for the event ev the superloop hands over; loaded
\* tells whether Config::try_load() gave Ok
process(ev, rs, k, cfg, clip, loaded) ==
    CASE ev.t \in {"Render", "Wakeup"} -> Outcome(Render, rs, cfg, clip, <<>>)
      [] ev.t = "PowerOn" ->
            Outcome(EventHandlerAction_Init, rs, cfg, clip, <<>>)
      [] ev.t = "Paste" ->
            IF clip.tag = "Some" /\ get_mut(rs, k).tag = "Some"
            THEN Outcome(Render, reached(rs, get_mut(rs, k).val), cfg, clip,
                         <<"paste">>)
            ELSE Outcome(Noop, rs, cfg, clip, <<>>)
      [] ev.t = "Copy" -> Outcome(Noop, rs, cfg, Some(ev.v), <<>>)
      [] ev.t = "UpdateConfig" ->
            LET config_ == IF loaded THEN "loaded" ELSE "default"
            IN  IF get_mut(rs, k).tag = "Some"
                THEN LET c == get_mut(rs, k).val
                     IN  Outcome(Render,
                                 [reached(rs, c) EXCEPT ![c].config = config_],
                                 config_, clip, <<"update_config">>)
                ELSE Outcome(Render, rs, config_, clip, <<>>)
      [] ev.t = "Title" -> on_current(rs, k, cfg, clip, <<"set_window_title">>)
      [] ev.t = "CreateNativeTab" -> Outcome(Noop, rs, cfg, clip, <<>>)
      [] ev.t = "MouseCursorDirty" ->
            on_current(rs, k, cfg, clip, <<"accumulated_scroll">>)
      [] ev.t = "Scroll" -> on_current(rs, k, cfg, clip, <<"scroll_display">>)
      [] ev.t = "ClipboardLoad" ->
            on_current(rs, k, cfg, clip, <<"clipboard_get", "send_bytes">>)
      [] ev.t = "ClipboardStore" ->
            on_current(rs, k, cfg, clip, <<"clipboard_store">>)
      [] ev.t = "PtyWrite" -> on_current(rs, k, cfg, clip, <<"send_bytes">>)
      [] ev.t = "UpdateFontSize" -> update_font_size(ev.v, rs, k, cfg, clip)
      [] ev.t = "RequestUpdate" -> Outcome(Update(ev.v), rs, cfg, clip, <<>>)
      [] OTHER -> Outcome(Noop, rs, cfg, clip, <<>>)

\* what a handler that returns nothing gives back
Unit == [tag |-> "()", val |-> 0]

\* a handler call that returns: the call and its result are recorded, the
\* outcome o is stored; no handler assigns self.current
Handler(name, a, r, o) ==
    /\ ~aborted /\ handled < MaxHandled
    /\ handled' = handled + 1
    /\ op' = name /\ arg' = a /\ res' = r
    /\ routes' = o.routes /\ config' = o.config /\ clipboard' = o.clipboard
    /\ performed' = o.performed
    /\ UNCHANGED <<current, aborted, OutsideRouter>>

\* a handler call that panics on an unwrap() before it changed anything in
\* the Router; did lists the calls it made before the unwrap()
Unwound(name, a, did) ==
    /\ ~aborted /\ handled < MaxHandled
    /\ handled' = handled + 1
    /\ op' = name /\ arg' = a /\ res' = Panic
    /\ aborted' = TRUE /\ performed' = did
    /\ UNCHANGED <<routes, current, config, clipboard, OutsideRouter>>

Same == Outcome(Unit, routes, config, clipboard, <<>>)
OnCurrent(did) == on_current(routes, current, config, clipboard, did)
If(b, did) == IF b THEN did ELSE <<>>

\* init(id, ..): Route::new(..).unwrap(); self.routes.insert(id, initial_route);
\* Route::new is called whether it gives Ok or Err
init(id) ==
    \E created \in BOOLEAN :
        IF created
        THEN Handler("init", Event("id", id), Unit,
                     Outcome(Unit, insert(routes, id, Route_new(id, config)),
                             config, clipboard, <<"Route::new">>))
        ELSE Unwound("init", Event("id", id), <<"Route::new">>)

\* process(): match self.superloop.event() { .. }
Process ==
    \E ev \in RioEvent, loaded \in BOOLEAN :
        LET o == process(ev, routes, current, config, clipboard, loaded)
        IN  Handler("process", ev, o.next, o)

\* opcode.into()
UpdateOpcode(opcode) ==
    IF opcode = 0 THEN "UpdateGraphicLibrary" ELSE "ForceRefresh"

\* update(opcode); graphics tells whether graphics_take_queues() gave
\* Some(graphic_queues), pending and remove_queue are the lengths of its two
\* queues: one graphics.add for each item of the first, then one
\* graphics.remove for each item of the second
update ==
    \E opcode \in 0..1, graphics \in BOOLEAN, pending \in 0..MaxQueue,
       remove_queue \in 0..MaxQueue, err \in BOOLEAN, image \in BOOLEAN :
        Handler("update", Event("opcode", opcode), Unit,
            IF UpdateOpcode(opcode) = "UpdateGraphicLibrary"
            THEN OnCurrent(<<"graphics_take_queues">>
                           \o If(graphics,
                                 [i \in 1..pending |-> "graphics.add"]
                                     \o [i \in 1..remove_queue |-> "graphics.remove"]))
            ELSE IF err THEN OnCurrent(<<"update_font">>)
            ELSE LET o == OnCurrent(<<"update_font", "layout.recalculate",
                                      "layout.update", "set_multiplier_and_divider",
                                      "resize_all_contexts", "set_background_color">>
                                    \o If(image, <<"set_background_image">>)
                                    \o <<"calculate_bounds", "render">>)
                 IN  IF get_mut(routes, current).tag = "Some"
                     THEN [o EXCEPT !.routes[get_mut(routes, current).val].font_size = 0]
                     ELSE o)

\* draw()
draw == Handler("draw", NoArg, Unit, OnCurrent(<<"render">>))

KeyCodes == {"LeftSuper", "RightSuper", "KeyA"}

\* key_down_event(keycode, mods, repeat, character); found is what
\* search_nearest_hyperlink_from_pos returns
key_down_event ==
    \E keycode \in KeyCodes, found \in BOOLEAN :
        Handler("key_down_event", Event(keycode, 0), Unit,
            IF keycode \in {"LeftSuper", "RightSuper"}
            THEN IF found
                 THEN OnCurrent(<<"search_nearest_hyperlink_from_pos",
                                  "set_mouse_cursor", "send_event">>)
                 ELSE OnCurrent(<<"search_nearest_hyperlink_from_pos",
                                  "process_key_event">>)
            ELSE OnCurrent(<<"process_key_event">>))

\* key_up_event(keycode, mods)
key_up_event ==
    \E keycode \in KeyCodes :
        Handler("key_up_event", Event(keycode, 0), Unit,
                OnCurrent(<<"process_key_event", "render">>))

\* mouse_motion_event(x, y); hide is config.hide_cursor_when_typing and
\* cursor tells whether process_motion_event gave a cursor
mouse_motion_event ==
    \E hide \in BOOLEAN, cursor \in BOOLEAN :
        Handler("mouse_motion_event", NoArg, Unit,
                OnCurrent(If(hide, <<"show_mouse">>) \o <<"process_motion_event">>
                          \o If(cursor, <<"set_mouse_cursor">>) \o <<"render">>))

TouchPhase == {"Started", "Moved", "Ended", "Cancelled"}

\* touch_event(phase, _id, _x, _y)
touch_event ==
    \E phase \in TouchPhase :
        Handler("touch_event", Event(phase, 0), Unit,
                IF phase = "Started" THEN OnCurrent(<<"accumulated_scroll">>)
                ELSE Same)

\* x.abs() / x.hypot(y) > 0.9, on integers: x * x / (x * x + y * y) > 81 / 100;
\* for x = y = 0 the quotient is NaN and the comparison false
horizontal(x, y) == 19 * x * x > 81 * y * y

Deltas == {-3, 0, 1}

\* mouse_wheel_event(x, y)
mouse_wheel_event ==
    \E x \in Deltas, y \in Deltas, hide \in BOOLEAN :
        Handler("mouse_wheel_event", Event("x", x), Unit,
                OnCurrent(If(hide, <<"show_mouse">>)
                          \o <<IF horizontal(x, y) THEN "scroll(x, 0)"
                               ELSE "scroll(0, y)">>
                          \o <<"render">>))

\* mouse_button_down_event(button, x, y)
mouse_button_down_event ==
    \E hide \in BOOLEAN :
        Handler("mouse_button_down_event", NoArg, Unit,
                OnCurrent(If(hide, <<"show_mouse">>) \o <<"process_mouse">>))

\* mouse_button_up_event(button, x, y)
mouse_button_up_event ==
    \E hide \in BOOLEAN :
        Handler("mouse_button_up_event", NoArg, Unit,
                OnCurrent(If(hide, <<"show_mouse">>) \o <<"process_mouse">>))

\* i32 -> u32 by try_into(): Err for a negative value
try_into(w) == IF w >= 0 THEN Some(w) ELSE None

Sizes == {-1, 640}

\* resize_event(w, h, scale_factor, rescale); the unwrap() of a failed
\* try_into() panics before the first resize
resize_event ==
    \E w \in Sizes, h \in Sizes, rescale \in BOOLEAN :
        IF get_mut(routes, current).tag = "Some"
               /\ (try_into(w).tag = "None" \/ try_into(h).tag = "None")
        THEN Unwound("resize_event", Event("w", w), <<>>)
        ELSE Handler("resize_event", Event("w", w), Unit,
                     OnCurrent(<<"resize">>
                               \o (IF rescale
                                   THEN <<"rescale", "resize", "calculate_bounds">>
                                   ELSE <<"resize">>)
                               \o <<"resize_all_contexts">>))

\* quit_requested_event()
quit_requested_event == Handler("quit_requested_event", NoArg, Unit, Same)

\* files_dropped_event()
files_dropped_event == Handler("files_dropped_event", NoArg, Unit, Same)

NextRouter ==
    \/ \E id \in RouteIds : init(id)
    \/ Process
    \/ update
    \/ draw
    \/ key_down_event
    \/ key_up_event
    \/ mouse_motion_event
    \/ touch_event
    \/ mouse_wheel_event
    \/ mouse_button_down_event
    \/ mouse_button_up_event
    \/ resize_event
    \/ quit_requested_event
    \/ files_dropped_event

\* run(): Router { config, current: 1, routes: HashMap::new(), .. }; the
\* clipboard holds whatever the system has
InitRouter ==
    /\ BRACKETS = SampleBrackets /\ MIRRORS = SampleMirrors /\ bsearch_impl = "probe"
    /\ InitCall
    /\ InitNoDecomp
    /\ InitNoProps
    /\ InitNoScript
    /\ InitNoLoop
    /\ InitNoThreads
    /\ routes = <<>> /\ current = 1 /\ config = "initial"
    /\ clipboard \in {None, Some(0)}
    /\ performed = <<>> /\ handled = 0

SpecRouter == InitRouter /\ [][NextRouter]_vars

(***************************************************************************)
(* Properties of the bracket, mirror and bidi-class lookups                *)
(***************************************************************************)
IsOpener(ch) == \E i \in 1..Len(BRACKETS) : BRACKETS[i][1] = ch
IsCloser(ch) == \E i \in 1..Len(BRACKETS) : BRACKETS[i][2] = ch

\* C1: bracket_type(ch) is Open(closing_bracket(ch)) whenever closing_bracket
\* finds a partner, else Close(opening_bracket(ch)) whenever opening_bracket
\* finds one, else None; a character that is both a registered opener and a
\* registered closer resolves as Open with the partner of its opener row.
C1_BracketTypeOpenFirst ==
    op = "bracket_type" =>
        /\ res = (IF closing_bracket(arg.v).tag = "Some"
                  THEN BracketOpen(closing_bracket(arg.v).val)
                  ELSE IF opening_bracket(arg.v).tag = "Some"
                       THEN BracketClose(opening_bracket(arg.v).val)
                       ELSE BracketNone)
        /\ \A i \in 1..Len(BRACKETS) :
               BRACKETS[i][1] = arg.v => res = BracketOpen(BRACKETS[i][2])

C1_Witness ==
    /\ op = "bracket_type"
    /\ IsOpener(arg.v) /\ opening_bracket(arg.v).tag = "Some"
    /\ res.tag = "Open"

\* C2: opening_bracket(close) is Some(open) for every registered pair
\* (open, close), and None for a character that is the close column of no
\* pair, for every table sorted by its open column.
C2_OpeningBracketFindsPartner ==
    op = "opening_bracket" =>
        /\ \A i \in 1..Len(BRACKETS) :
               BRACKETS[i][2] = arg.v => res = Some(BRACKETS[i][1])
        /\ ~IsCloser(arg.v) => res = None

\* C3: closing_bracket(open) is Some(close) for every registered pair
\* (open, close), and None for a character that is the open column of no pair.
C3_ClosingBracketFindsPartner ==
    op = "closing_bracket" =>
        /\ \A i \in 1..Len(BRACKETS) :
               BRACKETS[i][1] = arg.v => res = Some(BRACKETS[i][2])
        /\ ~IsOpener(arg.v) => res = None

C3_Witness ==
    /\ op = "closing_bracket"
    /\ Len(BRACKETS) = MaxPairs
    /\ BRACKETS[MaxPairs][1] = arg.v
    /\ res = Some(BRACKETS[MaxPairs][2])
    /\ res.val # arg.v

\* C4: mirror(ch) is Some(m) exactly when (ch, m) is an entry of MIRRORS, and
\* None (an ordinary value) when ch is the first column of no entry.
C4_MirrorIsTableEntry ==
    op = "mirror" =>
        /\ \A m \in Chars :
               res = Some(m) <=> \E i \in 1..Len(MIRRORS) : MIRRORS[i] = <<arg.v, m>>
        /\ (\A i \in 1..Len(MIRRORS) : MIRRORS[i][1] # arg.v) => res = None
        /\ res.tag \in {"Some", "None"}

C4_Witness ==
    /\ op = "mirror"
    /\ Len(MIRRORS) = MaxPairs
    /\ MIRRORS[1][1] = arg.v
    /\ res = Some(MIRRORS[1][2])

ResolvedClasses == {"RLE", "LRE", "RLO", "LRO", "RLI", "LRI", "FSI", "R", "AL", "AN"}

\* C9: needs_resolution(c) is true exactly for RLE, LRE, RLO, LRO, RLI, LRI,
\* FSI, R, AL and AN, and false for every other bidi class.
C9_NeedsResolutionClasses ==
    op = "needs_resolution" => res = (arg.v \in ResolvedClasses)

C9_Witness == op = "needs_resolution" /\ arg.v = "AN" /\ res = TRUE

RECURSIVE PopCount(_)
PopCount(x) == IF x = 0 THEN 0 ELSE (x % 2) + PopCount(x \div 2)

\* C10: mask(c) is 2^(discriminant of c), the discriminant is below 32, the
\* mask has exactly one bit set and no other class has the same mask.
C10_MaskIsDistinctBit ==
    op = "mask" =>
        /\ Discriminant(arg.v) < 32
        /\ res = 2 ^ Discriminant(arg.v)
        /\ PopCount(res) = 1
        /\ \A c \in BidiClass \ {arg.v} : mask(c) # res

C10_Witness == op = "mask" /\ arg.v = "NSM" /\ res = 2 ^ 22

(***************************************************************************)
(* Properties of decomposition                                             *)
(***************************************************************************)
CanonicallyDecomposable(c) == is_hangul(c) \/ Mapping(c).kind = "canonical"

\* C6: a Hangul syllable S with offset i = S - 0xAC00 decomposes to
\* [0x1100 + i / 588, 0x1161 + (i mod 588) / 28], followed by
\* 0x11A7 + (i mod 28) exactly when i mod 28 is not 0.
C6_HangulByFormula ==
    (pc = "done" /\ dsrc >= 44032 /\ dsrc <= 55203) =>
        LET i == dsrc - 44032
        IN  out = (IF i % 28 = 0
                   THEN <<4352 + (i \div 588), 4449 + ((i % 588) \div 28)>>
                   ELSE <<4352 + (i \div 588), 4449 + ((i % 588) \div 28),
                          4519 + (i % 28)>>)

C6_Witness == pc = "done" /\ dsrc = 44032 /\ out = <<4352, 4449>>

\* C7: decompose(ch) of a character without canonical decomposition that is
\* not a Hangul syllable yields exactly [ch].
C7_NoDecompositionYieldsSelf ==
    (pc = "done" /\ dmode = "canonical" /\ ~CanonicallyDecomposable(dsrc))
    => out = <<dsrc>>

C7_Witness ==
    /\ pc = "done" /\ dmode = "canonical"
    /\ Mapping(dsrc).kind = "compat" /\ out = <<dsrc>>

\* C8: every decomposition, canonical or compatible, stops within a fixed
\* number of expansion steps whatever the data, cyclic data included: no
\* item is deeper than the depth bound, an unfinished sequence can always
\* take its next step, and the sequence it yields is finite.
C8_ExpansionIsBounded ==
    /\ steps <= StepBound
    /\ \A i \in 1..Len(stack) : stack[i].depth <= MaxDepth
    /\ pc = "expanding" => (stack # <<>> /\ steps < StepBound)
    /\ Len(out) <= StepBound + 2

C8_Witness ==
    /\ pc = "done" /\ dmode = "compatible"
    /\ dsrc \in Cps /\ dsrc \in Reachable(dsrc)
    /\ steps = StepBound

(***************************************************************************)
(* Properties of the Properties handle                                     *)
(***************************************************************************)
\* the record indices get_record_index gives for scalar values
ScalarIndices == {get_record_index(ch).val : ch \in CharSamples}

\* C11: with_boundary(p, b).boundary() is b mod 4 for every handle p and
\* every b; the caller's p is not changed by the call; and the last write
\* wins: with_boundary(with_boundary(p, b1), b2) = with_boundary(p, b2).
C11_WithBoundaryLastWriteWins ==
    /\ [](op = "with_boundary" =>
            /\ boundary(res.val) = arg.v % 4
            /\ \A b2 \in BoundaryArgs :
                   with_boundary(res.val, b2) = with_boundary(props, b2))
    /\ [][op' = "with_boundary" => props' = props]_vars

C11_Witness ==
    /\ op = "with_boundary" /\ arg.v >= 4
    /\ boundary(props) # 0 /\ boundary(props) # arg.v % 4
    /\ record_index(props) > 0

\* C12: set_boundary and with_boundary leave the low 13 bits of the handle
\* as they were, for every 16-bit argument (4 and above included), so the
\* record the accessors read is the same before and after.
C12_BoundaryKeepsRecordIndex ==
    [][/\ op' = "set_boundary" => record_index(props') = record_index(props)
       /\ op' = "with_boundary" => record_index(res'.val) = record_index(props)]_vars

C12_Witness ==
    /\ op = "set_boundary" /\ arg.v = U16 - 1
    /\ record_index(props) = RECORD_MASK /\ boundary(props) = 3

\* C13: Properties::from(u32) given a surrogate or a value above 0x10FFFF
\* fails fast (the process aborts) and returns no handle.
C13_InvalidU32FailsFast ==
    (op = "from_u32" /\ ~IsScalarValue(arg.v)) => (aborted /\ res = Panic)

\* C14: the index of every Properties that exists, however it was obtained
\* (From<char>, From<u32>, Default, set_boundary, with_boundary), is one
\* get_record_index gives for a valid scalar value.
C14_IndexFromValidScalar ==
    /\ record_index(props) \in ScalarIndices
    /\ op = "with_boundary" => record_index(res.val) \in ScalarIndices

\* C15: in every reachable state the handle's index (handle & 0x1FFF) is
\* below RECORDS.len(), so the unchecked read of record() is in bounds,
\* after any sequence of lookups, Default and boundary updates.
C15_RecordIndexInBounds ==
    /\ record_index(props) < RECORDS_len
    /\ op = "with_boundary" => record_index(res.val) < RECORDS_len
    /\ op = "record" => res = Some(record_index(props))

C15_Witness ==
    /\ op = "record" /\ boundary(props) = 3
    /\ RECORDS_len = RECORD_MASK + 1 /\ res = Some(RECORDS_len - 1)

(***************************************************************************)
(* Properties of Script                                                    *)
(***************************************************************************)
\* C17: Script::from_opentype(tag) is Some(s) exactly when (tag, s) is a row
\* of the tag-sorted table SCRIPTS_BY_TAG, and None when no row has the tag.
C17_FromOpentypeIsTableEntry ==
    op = "from_opentype" =>
        /\ \A s \in Script :
               res = ScriptSome(s)
                   <=> \E i \in 1..Len(SCRIPTS_BY_TAG) : SCRIPTS_BY_TAG[i] = <<arg.v, s>>
        /\ (\A i \in 1..Len(SCRIPTS_BY_TAG) : SCRIPTS_BY_TAG[i][1] # arg.v)
               <=> res = ScriptNone
        /\ res.tag \in {"Some", "None"}

C17_Witness ==
    /\ op = "from_opentype"
    /\ Len(SCRIPTS_BY_TAG) = MaxPairs
    /\ SCRIPTS_BY_TAG[1][1] = arg.v
    /\ res = ScriptSome(SCRIPTS_BY_TAG[1][2])
    /\ SCRIPTS_BY_TAG[2][2] # SCRIPTS_BY_TAG[1][2]

JoinedScripts ==
    {"Arabic", "Mongolian", "Syriac", "Nko", "PhagsPa", "Mandaic",
     "Manichaean", "PsalterPahlavi", "Adlam"}

\* C18: is_joined is true exactly for Arabic, Mongolian, Syriac, Nko,
\* PhagsPa, Mandaic, Manichaean, PsalterPahlavi and Adlam, and false for
\* every other script of the enumeration.
C18_IsJoinedScripts ==
    /\ JoinedScripts \subseteq Script
    /\ op = "is_joined" => (arg.v \in Script /\ res = (arg.v \in JoinedScripts))

C18_Witness == op = "is_joined" /\ arg.v = "Adlam" /\ res = TRUE

(***************************************************************************)
(* Properties of the event loop                                            *)
(***************************************************************************)
\* build calls that have returned Ok or are past a swap that read false
Winners == built + Cardinality({b \in Builders : build_pc[b] = "channel"})

\* C19: over any sequence and interleaving of EventLoop::build calls exactly
\* one call returns Ok and every other returns Err(RecreationAttempt), also
\* after the first EventLoop has been dropped: the created flag is never
\* reset.
C19_BuildOnlyOnce ==
    /\ [](/\ built <= 1
          /\ Winners = (IF EVENT_LOOP_CREATED THEN 1 ELSE 0)
          /\ op = "build" => (res \in {BuildOk, BuildErr} /\ EVENT_LOOP_CREATED)
          /\ receiver # "none" => EVENT_LOOP_CREATED)
    /\ [][EVENT_LOOP_CREATED => EVENT_LOOP_CREATED']_vars

C19_Witness ==
    /\ receiver = "dropped" /\ built = 1
    /\ op = "build" /\ res = BuildErr
    /\ \A b \in Builders : build_pc[b] = "idle"

\* C20: send_event(e) returns Err(EventLoopClosed(e)), carrying e, exactly
\* when the receiver no longer exists as the send is made; then nothing is
\* enqueued and the source is neither signalled nor the run loop woken.
\* While the receiver exists the event is put in the channel and the call
\* returns Ok(()).
C20_SendEventClosed ==
    /\ [](op = "send_event" =>
            /\ res.tag = "Err" =>
                   /\ res = EventLoopClosed(arg.v)
                   /\ arg.v \notin returned_ok
                   /\ \A i \in 1..Len(received \o chan) : (received \o chan)[i].ev # arg.v
            /\ res.tag = "Ok" => (res = SendOk /\ arg.v \in returned_ok))
    /\ [][next_event' # next_event =>
            IF receiver = "alive"
            THEN /\ \E t \in Callers :
                        /\ Ready(t) /\ send_pc'[t] = "sent"
                        /\ cur'[t] = next_event'
                        /\ chan' = Append(chan, [ev |-> next_event', by |-> via'[t]])
                 /\ UNCHANGED <<op, arg, res, returned_ok>>
            ELSE /\ op' = "send_event" /\ arg' = EventArg(next_event')
                 /\ res' = EventLoopClosed(next_event')
                 /\ UNCHANGED <<chan, signalled, wake, send_pc, returned_ok>>]_vars
    /\ [][\A t \in Callers :
            /\ (send_pc'[t] = "signalled" /\ send_pc[t] # "signalled") =>
                   (send_pc[t] = "sent" /\ signalled'[via[t]])
            /\ (send_pc[t] = "signalled" /\ send_pc'[t] # "signalled") =>
                   /\ wake' /\ op' = "send_event" /\ arg' = EventArg(cur[t])
                   /\ res' = SendOk /\ returned_ok' = returned_ok \cup {cur[t]}]_vars
    /\ [][\A p \in Proxies :
            (signalled'[p] /\ ~signalled[p]) =>
                \E t \in Callers : via[t] = p /\ send_pc[t] = "sent"]_vars

C20_Witness ==
    /\ op = "send_event" /\ res = EventLoopClosed(arg.v) /\ arg.v > 1
    /\ receiver = "dropped" /\ chan = <<>>
    /\ 1 \in returned_ok

\* every event put in the channel so far that was not discarded: those the
\* main thread has taken, then those still waiting, oldest first
Delivery == received \o chan

Occurrences(q, e) == Cardinality({i \in 1..Len(q) : q[i].ev = e})

\* C21 as stated: every event for which send_event returned Ok is delivered
\* to the receiver exactly once (it has been received or is still to be).
C21_EveryOkEventDelivered ==
    \A e \in returned_ok : Occurrences(Delivery, e) = 1

\* C21: while the receiver exists, every event for which send_event returned
\* Ok, on a proxy made by create_proxy or by clone, is delivered exactly
\* once (received, or in the channel still); no event is ever received
\* twice; and the events of one proxy are received in the order they were
\* sent.  Events in the channel when the receiver is dropped are discarded.
C21_OkEventsDeliveredInOrder ==
    /\ receiver = "alive" => \A e \in returned_ok : Occurrences(Delivery, e) = 1
    /\ \A e \in 1..MaxSends : Occurrences(Delivery, e) <= 1
    /\ \A i, j \in 1..Len(Delivery) :
           (i < j /\ Delivery[i].by = Delivery[j].by) => Delivery[i].ev < Delivery[j].ev

C21_Witness ==
    /\ receiver = "alive" /\ event_loop = "dropped"
    /\ Len(received) >= 1 /\ chan # <<>>
    /\ received[1].by = chan[1].by
    /\ {received[1].ev, chan[1].ev} \subseteq returned_ok
    /\ \E p, q \in Proxies : p # q /\ proxy[p] = "live" /\ proxy[q] = "live"

\* C22: send_event puts the event in the channel before it signals the
\* source and wakes the run loop, so a signalled source or a wake-up of a
\* proxy always finds its event already sent; and an event put in the
\* channel by a call that has returned is followed by a wake-up: while it
\* waits there, a wake-up is pending or the main loop is awake.
C22_NoLostWakeUp ==
    /\ \A t \in Callers :
           (receiver = "alive" /\ send_pc[t] = "signalled")
               => Occurrences(Delivery, cur[t]) = 1
    /\ \A p \in Proxies :
           (receiver = "alive" /\ signalled[p])
               => \E i \in 1..Len(Delivery) : Delivery[i].by = p
    /\ (receiver = "alive" /\ \E i \in 1..Len(chan) : chan[i].ev \in returned_ok)
           => (wake \/ main_pc = "awake")

C22_Witness ==
    /\ receiver = "alive" /\ main_pc = "waiting" /\ wake
    /\ Len(received) >= 1 /\ chan # <<>> /\ chan[1].ev \in returned_ok
    /\ \E p \in Proxies : signalled[p]


(***************************************************************************)
(* Properties of concurrent lookups                                        *)
(***************************************************************************)
\* the whole decomposition of cp, computed in one go by recursion
RECURSIVE Expansion(_, _, _)
Expansion(cp, depth, mode) ==
    IF is_hangul(cp) THEN decompose_hangul(cp)
    ELSE IF can_expand(cp, depth, mode)
    THEN LET m == Mapping(cp).map
         IN  IF Len(m) = 1 THEN Expansion(m[1], depth + 1, mode)
             ELSE Expansion(m[1], depth + 1, mode) \o Expansion(m[2], depth + 1, mode)
    ELSE <<cp>>

IsPrefix(a, b) == Len(a) <= Len(b) /\ a = SubSeq(b, 1, Len(a))

\* C16: under any interleaving of the steps of lookups and decompositions
\* by several threads on the same tables, each lookup returns what it
\* returns when run alone, the tables never change, and a decompose started
\* anew yields the same sequence from the start, however far an earlier
\* sequence of that or another thread had been consumed.
C16_LookupsAreRaceFree ==
    /\ [](\A t \in Threads :
            /\ (th[t].op \in {"bracket_type", "mirror", "properties"}
                    /\ th[t].pc = "done") =>
                   th[t].res = lookup(th[t].op, th[t].arg)
            /\ th[t].op \in {"decompose", "decompose_compatible"} =>
                   /\ IsPrefix(th[t].out, Expansion(th[t].arg, 0, th[t].mode))
                   /\ th[t].pc = "done" =>
                          th[t].out = Expansion(th[t].arg, 0, th[t].mode))
    /\ [][UNCHANGED <<BRACKETS, MIRRORS, DECOMP, RECORD_INDEX, SCRIPTS_BY_TAG>>]_vars

\* one thread is in the second search of bracket_type while another is in
\* the middle of a sequence, and a third call has returned
C16_Witness ==
    \E t, u \in Threads :
        /\ t # u
        /\ th[t].op = "bracket_type" /\ th[t].pc = "searching"
        /\ th[t].frame.col = 2 /\ th[t].frame.size < Len(BRACKETS)
        /\ th[u].op = "decompose" /\ th[u].pc = "expanding" /\ Len(th[u].out) = 1

(***************************************************************************)
(* Properties of the Router                                                *)
(***************************************************************************)
OtherRoutes == DOMAIN routes \ {current}

\* C24: no EventHandler method modifies Router.current, which keeps the 1
\* run() gave it; a handler other than init changes no route but the one
\* under current, and none at all when there is no route under current;
\* init(id) adds or replaces the entry of id and leaves the others as they
\* are; no entry is ever removed; so a route inserted under an id other
\* than current is never reached by a handler.
C24_HandlersActOnCurrentOnly ==
    /\ [](current = 1)
    /\ [](\A k \in OtherRoutes : routes[k] = Route_new(k, routes[k].config))
    /\ [][/\ current' = current
          /\ DOMAIN routes \subseteq DOMAIN routes'
          /\ (op' = "init" /\ res'.tag # "Panic") =>
                 /\ DOMAIN routes' = DOMAIN routes \cup {arg'.v}
                 /\ routes'[arg'.v] = Route_new(arg'.v, config)
                 /\ \A k \in DOMAIN routes \ {arg'.v} : routes'[k] = routes[k]
          /\ (op' # "init" \/ res'.tag = "Panic") =>
                 /\ DOMAIN routes' = DOMAIN routes
                 /\ \A k \in OtherRoutes : routes'[k] = routes[k]
                 /\ current \notin DOMAIN routes => routes' = routes]_vars

C24_Witness ==
    /\ current \in DOMAIN routes /\ routes[current].events >= 1
    /\ \E k \in OtherRoutes : routes[k].events = 0
    /\ op \notin {"init", "none"}

\* the action C25 names for an event other than UpdateConfig and
\* UpdateFontSize
Mapped(ev) ==
    CASE ev.t \in {"Render", "Wakeup"} -> [tag |-> "Render", val |-> 0]
      [] ev.t = "PowerOn" -> [tag |-> "Init", val |-> 0]
      [] ev.t = "RequestUpdate" -> [tag |-> "Update", val |-> ev.v]
      [] ev.t = "Paste" ->
            IF clipboard.tag = "Some" /\ current \in DOMAIN routes
            THEN [tag |-> "Render", val |-> 0]
            ELSE [tag |-> "Noop", val |-> 0]
      [] OTHER -> [tag |-> "Noop", val |-> 0]

\* C25 as stated: process() gives Render for Render and Wakeup, Init for
\* PowerOn, Update(opcode) for RequestUpdate(opcode), Render for Paste when
\* the clipboard has a value and a route exists under current, and Noop for
\* every other event.
C25_ProcessMapping == op = "process" => res = Mapped(arg)

\* C25, amended: as stated for every event but two: UpdateConfig gives
\* Render, and UpdateFontSize gives Render or Noop.
C25_ProcessMappingButConfigAndFont ==
    op = "process" =>
        CASE arg.t = "UpdateConfig" -> res = [tag |-> "Render", val |-> 0]
          [] arg.t = "UpdateFontSize" -> res.tag \in {"Render", "Noop"}
          [] OTHER -> res = Mapped(arg)

C25_Witness ==
    /\ op = "process" /\ arg = Event("RequestUpdate", 1)
    /\ res.tag = "Update" /\ res.val = 1
    /\ current \in DOMAIN routes

Steps(did) == {did[i] : i \in 1..Len(did)}

\* the font size of the current route changed in this step
FontSizeChanged ==
    /\ current \in DOMAIN routes
    /\ routes'[current].font_size # routes[current].font_size

\* C26 as stated: on UpdateFontSize(action) process() makes the four layout
\* calls in order and returns Render only when the font size changed; with
\* a route under current and an action other than 0, 1, 2 or no change, it
\* returns Noop and makes none of the four calls.
C26_RenderOnlyOnFontChange ==
    [][(op' = "process" /\ arg'.t = "UpdateFontSize") =>
          /\ res'.tag = "Render" => FontSizeChanged
          /\ Steps(performed') \cap Steps(Relayout) # {} => FontSizeChanged
          /\ FontSizeChanged =>
                 /\ res'.tag = "Render"
                 /\ Len(performed') = 5
                 /\ SubSeq(performed', 2, 5) = Relayout
          /\ (current \in DOMAIN routes
                  /\ (arg'.v \notin {0, 1, 2} \/ ~FontSizeChanged)) =>
                 /\ res'.tag = "Noop"
                 /\ Steps(performed') \cap Steps(Relayout) = {}]_vars

\* C26, amended: the same, except that Render is also what process()
\* returns when there is no route under current, and then no call is made
\* and no font size changes.
C26_RenderOnFontChangeOrNoRoute ==
    [][(op' = "process" /\ arg'.t = "UpdateFontSize") =>
          /\ res'.tag = "Render" <=> (FontSizeChanged \/ current \notin DOMAIN routes)
          /\ current \notin DOMAIN routes => performed' = <<>> /\ routes' = routes
          /\ Steps(performed') \cap Steps(Relayout) # {} => FontSizeChanged
          /\ FontSizeChanged =>
                 /\ Len(performed') = 5
                 /\ SubSeq(performed', 2, 5) = Relayout
          /\ (current \in DOMAIN routes
                  /\ (arg'.v \notin {0, 1, 2} \/ ~FontSizeChanged)) =>
                 /\ res'.tag = "Noop"
                 /\ Steps(performed') \cap Steps(Relayout) = {}]_vars

C26_Witness ==
    /\ op = "process" /\ arg = Event("UpdateFontSize", 2)
    /\ res.tag = "Render" /\ current \in DOMAIN routes
    /\ routes[current].font_size = 1
    /\ performed = <<"increase_font_size">> \o Relayout

====
